---- MODULE Spec2Model ----
(***************************************************************************)
(* S1GNAL.ZERO agent pipeline: the score aggregator's weighted formula,    *)
(* the in-memory fallback bus and the BaseAgent runtime.                   *)
(*                                                                         *)
(* Numbers.  Agent scores carry two decimals (create_standard_response     *)
(* rounds to 2 places), so a score is modelled as an integer number of     *)
(* hundredths; a weight is an integer number of hundredths as well, and a  *)
(* reality score is therefore an integer number of ten-thousandths.  The   *)
(* arithmetic is exact; IEEE rounding of the Python floats is not          *)
(* modelled.                                                               *)
(***************************************************************************)
EXTENDS Integers, Sequences, FiniteSets, TLC

VARIABLES
    agentResults,      \* the agentResults mapping handed to the aggregator
    aggregate,         \* what _aggregate_agent_results returned for it
    previous,          \* what the call before that one returned
    aggregations,      \* number of _aggregate_agent_results calls made
    config,            \* the demo settings of Config, read from the environment at import
    result,            \* what the last process_analysis_request call returned
    solaceAvailable,   \* SOLACE_AVAILABLE: whether the broker library imported
    is_running,        \* BaseAgent.is_running, per agent
    use_fallback,      \* BaseAgent.use_fallback, per agent
    messaging_service, \* BaseAgent.messaging_service: "none", "built", "up", "closed"
    publisher,         \* BaseAgent.publisher, likewise
    receiver,          \* BaseAgent.receiver, likewise
    brokerSubscribed,  \* the agent's handler is registered with its broker receiver
    processing_count,  \* BaseAgent.processing_count
    error_count,       \* BaseAgent.error_count
    starts,            \* number of start() calls made on the agent
    connectAttempts,   \* number of _connect_solace() calls made by the agent
    lastStart,         \* how the last start() call ended: "none", "returned", "raised"
    stopLog,           \* per agent: whether stop() has returned and, for its first
                       \* call, the number of publish() calls made by then and the
                       \* handler threads that were running
    subscribers,       \* InMemoryMessageBus.subscribers: topic -> list of handlers
    lock,              \* InMemoryMessageBus.lock: 0 when free, else the holding thread
    threads,           \* the caller threads and the threads publish() has started
    pubCount,          \* number of publish() calls made so far (bus and broker)
    published,         \* every payload handed to a transport, with its topic, the
                       \* transport and, on the bus, the handler list it went to
    loops,             \* per agent: the liveness loops _start_message_processing started
    client,            \* a SolaceClient: its fields
    clientCall,        \* the last call made on the client and what it returned
    orch_agents,       \* AgentOrchestrator.agents: the instance held for each class
    shutdown_event,    \* AgentOrchestrator.shutdown_event
    agent_threads,     \* per instance: where the thread running _run_agent on it is
    restartLog         \* the restarts made: the instance replaced, the new one, and
                       \* the number of publish() calls made by then

aggVars == <<agentResults, aggregate, previous, aggregations>>

demoVars == <<config, result>>

agentVars == <<solaceAvailable, is_running, use_fallback, messaging_service, publisher,
               receiver, brokerSubscribed, processing_count, error_count, starts,
               connectAttempts, lastStart, stopLog, loops>>

clientVars == <<client, clientCall>>

orchVars == <<orch_agents, shutdown_event, agent_threads, restartLog>>

busVars == <<subscribers, lock, threads, pubCount, published>>

vars == <<agentResults, aggregate, previous, aggregations, config, result,
          solaceAvailable, is_running, use_fallback, messaging_service, publisher,
          receiver, brokerSubscribed, processing_count, error_count, starts,
          connectAttempts, lastStart, stopLog, subscribers, lock, threads, pubCount,
          published, loops, client, clientCall, orch_agents, shutdown_event, agent_threads,
          restartLog>>

-----------------------------------------------------------------------------
(* Units *)

\* hundredths of a score point (round(score, 2))
Hundredths == 100

\* a reality score is score (1/100) times weight (1/100)
Unit == Hundredths * Hundredths

-----------------------------------------------------------------------------
(* config.py: the aggregator's weights, in hundredths *)

SCORE_AGGREGATOR_BOT_WEIGHT == 40
SCORE_AGGREGATOR_TREND_WEIGHT == 30
SCORE_AGGREGATOR_REVIEW_WEIGHT == 20
SCORE_AGGREGATOR_PROMOTION_WEIGHT == 10

\* the neutral score 50.0 of _extract_agent_scores, in hundredths
NeutralScore == 5000

SignalAgents == {"bot-detector", "trend-analyzer", "review-validator", "paid-promotion"}

-----------------------------------------------------------------------------
(* The aggregator's input.  One entry of agentResults is a Python dict or  *)
(* is missing from the mapping: kind "absent" (no key), "empty" ({}), or   *)
(* "result" (a non-empty dict, with or without a 'score' key, a             *)
(* 'confidence' key, an 'evidence' key and a 'data_sources' key), or "null" *)
(* (the key is there and its value is None, a JSON null).  A confidence is  *)
(* in hundredths, as a score.                                               *)

ScoreVals == {0, 3399, 3400, 6699, 6700, 9000, 10000, 12000}

InRange(s) == 0 <= s /\ s <= 100 * Hundredths

Entry(kind, hasScore, score) ==
    [kind |-> kind, hasScore |-> hasScore, score |-> score,
     hasConfidence |-> FALSE, confidence |-> 0,
     hasEvidence |-> FALSE, hasDataSources |-> FALSE]

\* the same dict with a 'confidence' key
WithConfidence(entry, c) == [entry EXCEPT !.hasConfidence = TRUE, !.confidence = c]

\* the same dict with an 'evidence' key and a 'data_sources' key
WithEvidence(entry) == [entry EXCEPT !.hasEvidence = TRUE, !.hasDataSources = TRUE]

Absent == Entry("absent", FALSE, 0)
Null == Entry("null", FALSE, 0)
EmptyDict == Entry("empty", FALSE, 0)
NoScoreResult == Entry("result", FALSE, 0)
Scored(s) == Entry("result", TRUE, s)

Entries == {Absent, EmptyDict, NoScoreResult} \cup {Scored(s) : s \in ScoreVals}

\* agent_results.get(agent, {})
ResultsGet(results, agent) ==
    IF results[agent].kind = "absent" THEN EmptyDict ELSE results[agent]

\* bool(d) of a dict: an empty dict is falsy
Truthy(entry) == entry.kind = "result"

\* d.get('score', 50.0)
ScoreGet(entry) == IF entry.hasScore THEN entry.score ELSE NeutralScore

\* a slip in the fallback: a missing agent counted as score 0
ExtractOne_NoDefault(results, agent) ==
    LET r == ResultsGet(results, agent)
    IN  IF Truthy(r) THEN ScoreGet(r) ELSE 0

\* one block of _extract_agent_scores
ExtractOne(results, agent) ==
    LET r == ResultsGet(results, agent)
    IN  IF Truthy(r) THEN ScoreGet(r) ELSE NeutralScore

\* _extract_agent_scores
ExtractAgentScores(results) ==
    [bot_detector     |-> ExtractOne(results, "bot-detector"),
     trend_analyzer   |-> ExtractOne(results, "trend-analyzer"),
     review_validator |-> ExtractOne(results, "review-validator"),
     paid_promotion   |-> ExtractOne(results, "paid-promotion")]

Min(a, b) == IF a <= b THEN a ELSE b
Max(a, b) == IF a >= b THEN a ELSE b

\* a slip in the weights: the four scores averaged with equal weight
WeightedSum_Unweighted(scores) ==
    (scores.bot_detector + scores.trend_analyzer
        + scores.review_validator + scores.paid_promotion) * 25

\* a slip in the bot term: the bot percentage weighed in place of the
\* authenticity score
WeightedSum_BotPercentage(scores) ==
      (100 * Hundredths - scores.bot_detector) * SCORE_AGGREGATOR_BOT_WEIGHT
    + scores.trend_analyzer * SCORE_AGGREGATOR_TREND_WEIGHT
    + scores.review_validator * SCORE_AGGREGATOR_REVIEW_WEIGHT
    + scores.paid_promotion * SCORE_AGGREGATOR_PROMOTION_WEIGHT

\* the weighted sum of _calculate_reality_score, before the clamp
WeightedSum(scores) ==
      scores.bot_detector * SCORE_AGGREGATOR_BOT_WEIGHT
    + scores.trend_analyzer * SCORE_AGGREGATOR_TREND_WEIGHT
    + scores.review_validator * SCORE_AGGREGATOR_REVIEW_WEIGHT
    + scores.paid_promotion * SCORE_AGGREGATOR_PROMOTION_WEIGHT

\* _calculate_reality_score: max(min(sum, 100.0), 0.0)
CalculateRealityScore(scores) == Max(Min(WeightedSum(scores), 100 * Unit), 0)

\* a slip in the boundary: 67 itself classified YELLOW
ClassifyManipulationLevel_Strict(reality) ==
    IF reality > 67 * Unit THEN "GREEN"
    ELSE IF reality >= 34 * Unit THEN "YELLOW"
    ELSE "RED"

\* _classify_manipulation_level
ClassifyManipulationLevel(reality) ==
    IF reality >= 67 * Unit THEN "GREEN"
    ELSE IF reality >= 34 * Unit THEN "YELLOW"
    ELSE "RED"

-----------------------------------------------------------------------------
(* score_aggregator_agent.py: the overall confidence.  A confidence the     *)
(* aggregator computes is a fraction: the mean of up to four confidences in *)
(* hundredths has denominator 1200, and a tenth of the variance of four     *)
(* scores in hundredths has denominator 6 400 000; their common denominator *)
(* is ConfUnit, the number of confidence units in one point.                *)

ConfUnit == 1200 * 16000

\* a slip: the confidence tested for truth, which leaves out a confidence of 0.0
Confident_NonZero(results) ==
    {a \in SignalAgents :
        /\ Truthy(ResultsGet(results, a))
        /\ ResultsGet(results, a).hasConfidence
        /\ ResultsGet(results, a).confidence # 0}

\* the agent types whose result is non-empty and has a 'confidence' key
Confident(results) ==
    {a \in SignalAgents :
        Truthy(ResultsGet(results, a)) /\ ResultsGet(results, a).hasConfidence}

RECURSIVE SumConfidences(_, _)
\* sum(confidences), in hundredths
SumConfidences(results, agents) ==
    IF agents = {} THEN 0
    ELSE LET a == CHOOSE x \in agents : TRUE
         IN  ResultsGet(results, a).confidence + SumConfidences(results, agents \ {a})

\* _calculate_variance of the four extracted scores: sum((x - mean)^2) / 4,
\* counted in 64ths of a squared hundredth (mean = S/4, so x - mean = (4x - S)/4)
CalculateVariance(scores) ==
    LET S == scores.bot_detector + scores.trend_analyzer
               + scores.review_validator + scores.paid_promotion
        d(x) == 4 * x - S
    IN  d(scores.bot_detector) * d(scores.bot_detector)
          + d(scores.trend_analyzer) * d(scores.trend_analyzer)
          + d(scores.review_validator) * d(scores.review_validator)
          + d(scores.paid_promotion) * d(scores.paid_promotion)

\* max(0, 10 - score_variance / 10), in confidence units: a point is
\* 6 400 000 units of variance / 10, each worth three confidence units
ConsistencyBonus(scores) == 3 * Max(0, 10 * 6400000 - CalculateVariance(scores))

\* a slip: the bonus given for the first responding agent as well
AgentCountBonus_PerAgent(n) == n * 2 * ConfUnit

\* (len(confidences) - 1) * 2
AgentCountBonus(n) == (n - 1) * 2 * ConfUnit

\* min(base_confidence, 98.0) of _calculate_overall_confidence, where
\* base_confidence = mean + consistency_bonus + agent_count_bonus; the mean is
\* compared before the bonuses are added, which keeps every number below 2^31
CappedConfidence(results, scores) ==
    LET agents == Confident(results)
        n == Cardinality(agents)
        mean == SumConfidences(results, agents) * ((ConfUnit \div Hundredths) \div n)
        bonus == ConsistencyBonus(scores) + AgentCountBonus(n)
    IN  IF mean >= 98 * ConfUnit - bonus THEN 98 * ConfUnit ELSE mean + bonus

\* a slip in the clamp: the floor of 60 left out
CalculateOverallConfidence_NoFloor(results, scores) ==
    IF Confident(results) = {} THEN 70 * ConfUnit
    ELSE CappedConfidence(results, scores)

\* _calculate_overall_confidence
CalculateOverallConfidence(results, scores) ==
    IF Confident(results) = {} THEN 70 * ConfUnit
    ELSE Max(CappedConfidence(results, scores), 60 * ConfUnit)

-----------------------------------------------------------------------------
(* score_aggregator_agent.py: the score breakdown *)

\* a slip: a rounding that drifts with the number of aggregations made
Round_Drifting(x, m) == ((x \div m) + aggregations) * m

\* round(x, ndigits) for x counted in units of which m make one step of the
\* result: the nearest multiple of m, a tie going to the even multiple (a tie
\* of the Python floats may fall either way; the inputs of the model have none)
Round(x, m) ==
    LET q == x \div m
        r == x % m
    IN  IF 2 * r < m THEN q * m
        ELSE IF 2 * r > m THEN (q + 1) * m
        ELSE IF q % 2 = 0 THEN q * m ELSE (q + 1) * m

\* _create_score_breakdown: the scores rounded to one decimal (in hundredths)
\* and the weighted contributions rounded to one decimal (in ten-thousandths)
CreateScoreBreakdown(scores) ==
    [individual_scores |->
        [bot_detection_score |-> Round(scores.bot_detector, 10),
         trend_analysis_score |-> Round(scores.trend_analyzer, 10),
         review_validation_score |-> Round(scores.review_validator, 10),
         paid_promotion_score |-> Round(scores.paid_promotion, 10)],
     weighted_contributions |->
        [bot_detection_weighted |->
            Round(scores.bot_detector * SCORE_AGGREGATOR_BOT_WEIGHT, 1000),
         trend_analysis_weighted |->
            Round(scores.trend_analyzer * SCORE_AGGREGATOR_TREND_WEIGHT, 1000),
         review_validation_weighted |->
            Round(scores.review_validator * SCORE_AGGREGATOR_REVIEW_WEIGHT, 1000),
         paid_promotion_weighted |->
            Round(scores.paid_promotion * SCORE_AGGREGATOR_PROMOTION_WEIGHT, 1000)]]

-----------------------------------------------------------------------------
(* score_aggregator_agent.py: the loops over agent_results.items() *)

\* agent_results.items(): the agents that have a key in the mapping
Items(results) == {a \in SignalAgents : results[a].kind # "absent"}

\* a slip: the key read by subscription, result[key], where the code tests
\* `key in result`
KeyIn_Subscript(entry, has) ==
    IF entry.kind = "null" THEN "TypeError"
    ELSE IF has THEN "yes" ELSE "KeyError"

\* `key in result`: a membership test on None raises TypeError
KeyIn(entry, has) ==
    IF entry.kind = "null" THEN "TypeError"
    ELSE IF has THEN "yes" ELSE "no"

\* _analyze_cross_agent_patterns: `'evidence' in result` for each item; whether
\* the loop raises
AnalyzeCrossAgentPatternsRaises(results) ==
    \E a \in Items(results) : KeyIn(results[a], results[a].hasEvidence) \notin {"yes", "no"}

\* _combine_data_sources: `'data_sources' in result` for each item; whether the
\* loop raises
CombineDataSourcesRaises(results) ==
    \E a \in Items(results) :
        KeyIn(results[a], results[a].hasDataSources) \notin {"yes", "no"}

\* _combine_data_sources: the agents whose sources are in the result, besides
\* the aggregator's two
CombineDataSources(results) ==
    {a \in Items(results) : KeyIn(results[a], results[a].hasDataSources) = "yes"}

\* _extract_key_findings: the overall finding, which is key_findings[0]
ExtractKeyFinding(reality) ==
    IF reality < 33 * Unit THEN "HEAVILY MANIPULATED"
    ELSE IF reality < 67 * Unit THEN "MIXED SIGNALS"
    ELSE "MOSTLY AUTHENTIC"

NoAggregate ==
    [done |-> FALSE,
     raised |-> FALSE,
     key_finding |-> "NONE",
     data_sources |-> {},
     agent_scores |-> [bot_detector |-> 0, trend_analyzer |-> 0,
                       review_validator |-> 0, paid_promotion |-> 0],
     reality_score |-> 0,
     manipulation_level |-> "NONE",
     confidence |-> 0,
     score_breakdown |->
        [individual_scores |->
            [bot_detection_score |-> 0, trend_analysis_score |-> 0,
             review_validation_score |-> 0, paid_promotion_score |-> 0],
         weighted_contributions |->
            [bot_detection_weighted |-> 0, trend_analysis_weighted |-> 0,
             review_validation_weighted |-> 0, paid_promotion_weighted |-> 0]]]

\* _aggregate_agent_results (the extracted scores, the score, the level, the
\* confidence, the breakdown and the data sources), or the exception it ends by
AggregateAgentResults(results) ==
    LET scores == ExtractAgentScores(results)
        reality == CalculateRealityScore(scores)
    IN  IF AnalyzeCrossAgentPatternsRaises(results) \/ CombineDataSourcesRaises(results)
        THEN [NoAggregate EXCEPT !.raised = TRUE]
        ELSE [done |-> TRUE,
              raised |-> FALSE,
              data_sources |-> CombineDataSources(results),
              agent_scores |-> scores,
              reality_score |-> reality,
              manipulation_level |-> ClassifyManipulationLevel(reality),
              key_finding |-> ExtractKeyFinding(reality),
              confidence |-> CalculateOverallConfidence(results, scores),
              score_breakdown |-> CreateScoreBreakdown(scores)]

-----------------------------------------------------------------------------
(* config.py: what the Config class defines *)

\* the class attributes of Config (the ones the runtime reads, and TOPICS)
ConfigAttributes ==
    {"SOLACE_HOST", "SOLACE_VPN", "SOLACE_USERNAME", "SOLACE_PASSWORD",
     "PYTHON_LOG_LEVEL", "LOG_FORMAT", "AGENT_TIMEOUT_SECONDS", "AGENT_MAX_RETRIES",
     "AGENT_RETRY_DELAY_SECONDS", "DEMO_RESPONSE_DELAY_MS",
     "DEMO_ADD_REALISTIC_VARIANCE", "DEMO_CONFIDENCE_SCORE",
     "STANLEY_CUP_BOT_PERCENTAGE", "STANLEY_CUP_REALITY_SCORE",
     "BUZZ_STOCK_BOT_PERCENTAGE", "BUZZ_STOCK_REALITY_SCORE",
     "PRIME_ENERGY_BOT_PERCENTAGE", "PRIME_ENERGY_REALITY_SCORE",
     "SCORE_AGGREGATOR_BOT_WEIGHT", "SCORE_AGGREGATOR_TREND_WEIGHT",
     "SCORE_AGGREGATOR_REVIEW_WEIGHT", "SCORE_AGGREGATOR_PROMOTION_WEIGHT",
     "TOPICS"}

\* Config.TOPICS (the entries of the modelled agent)
TOPICS ==
    [BOT_DETECTOR_REQUEST  |-> "signalzero/agent/bot-detector/request",
     BOT_DETECTOR_RESPONSE |-> "signalzero/agent/bot-detector/response"]

Topics == {TOPICS.BOT_DETECTOR_REQUEST, TOPICS.BOT_DETECTOR_RESPONSE}

\* the agent instances of the model, named by their agent_type
Agents == {"bot-detector"}

\* the instance restart_failed_agents() constructs in place of a failed one
Restarted == {"bot-detector-restart"}

\* every BaseAgent instance constructed in a run
Instances == Agents \cup Restarted

-----------------------------------------------------------------------------
(* base_agent.py: topic resolution *)

\* the attributes the topic_map literal of _get_request_topic reads
RequestTopicAttrs ==
    {"BOT_DETECTOR_REQUEST_TOPIC", "TREND_ANALYZER_REQUEST_TOPIC",
     "REVIEW_VALIDATOR_REQUEST_TOPIC", "PAID_PROMOTION_REQUEST_TOPIC",
     "SCORE_AGGREGATOR_REQUEST_TOPIC"}

\* the attributes the topic_map literal of _get_response_topic reads
ResponseTopicAttrs ==
    {"BOT_DETECTOR_RESPONSE_TOPIC", "TREND_ANALYZER_RESPONSE_TOPIC",
     "REVIEW_VALIDATOR_RESPONSE_TOPIC", "PAID_PROMOTION_RESPONSE_TOPIC",
     "SCORE_AGGREGATOR_RESPONSE_TOPIC"}

\* evaluating self.config.X for every X of a dict literal: an attribute Config
\* does not define raises AttributeError before the lookup is made
Resolve(attrs, topic) ==
    IF attrs \subseteq ConfigAttributes
    THEN [raised |-> FALSE, topic |-> topic]
    ELSE [raised |-> TRUE, topic |-> "none"]

\* the topic resolution as it would be with the five attributes defined
GetRequestTopic_Defined(a) == [raised |-> FALSE, topic |-> TOPICS.BOT_DETECTOR_REQUEST]

\* _get_request_topic
GetRequestTopic(a) == Resolve(RequestTopicAttrs, TOPICS.BOT_DETECTOR_REQUEST)

\* the topic resolution as it would be with the five attributes defined
GetResponseTopic_Defined(a) == [raised |-> FALSE, topic |-> TOPICS.BOT_DETECTOR_RESPONSE]

\* _get_response_topic
GetResponseTopic(a) == Resolve(ResponseTopicAttrs, TOPICS.BOT_DETECTOR_RESPONSE)

-----------------------------------------------------------------------------
(* Bounds of the runtime model *)

\* threads of the environment that call publish()
NumCallers == 1
\* threads publish() may start over a run
MaxThreads == 4
\* publish() calls the environment makes over a run
MaxMsgs == 2
\* subscribe() calls the environment makes over a run
MaxSubs == 2
\* start() calls made on an agent over a run
MaxStarts == 2
\* _aggregate_agent_results calls made on one input over a run
MaxAggregations == 2

Callers == 1 .. NumCallers
HandlerThreads == (NumCallers + 1) .. (NumCallers + MaxThreads)
AllThreads == Callers \cup HandlerThreads

\* a callable the environment subscribes besides the agent's handler
GenericHandlers == {"h1"}

\* a subscribed handler: a generic callable, or an agent's _handle_fallback_message
Handlers == GenericHandlers \cup Agents

-----------------------------------------------------------------------------
(* Payloads.  kind "request": a JSON object carrying analysisId = id;       *)
(* "garbage": text json.loads rejects; "response": the JSON of a response   *)
(* dict, whose analysisId key is present iff hasId.                         *)

Payload(kind, id, hasId, status, score, confidence) ==
    [kind |-> kind, id |-> id, hasId |-> hasId, status |-> status,
     score |-> score, confidence |-> confidence, keys |-> {}]

\* the keys of the dict create_standard_response returns
StandardKeys == {"analysisId", "score", "confidence", "evidence", "data_sources", "status"}

\* the keys result.update(...) of _process_message adds
MetadataKeys == {"agent_type", "processing_time_ms", "timestamp", "agent_version"}

\* the keys of the error_response literal of _publish_error_response
ErrorKeys == {"agent_type", "status", "error_message", "timestamp", "score", "confidence"}

NoPayload == Payload("none", 0, FALSE, "none", 0, 0)
Request(id) == Payload("request", id, TRUE, "none", 0, 0)
Garbage(id) == Payload("garbage", id, FALSE, "none", 0, 0)

\* create_standard_response plus the metadata of _process_message
StandardResponse(analysisId, score, confidence) ==
    [Payload("response", analysisId, TRUE, "COMPLETE", score, confidence)
        EXCEPT !.keys = StandardKeys \cup MetadataKeys]

\* a slip: an error response that carries the score 0
ErrorResponse_ZeroScore(analysisId) ==
    [Payload("response", 0, FALSE, "ERROR", 0, 0) EXCEPT !.keys = ErrorKeys]

\* the error_response dict of _publish_error_response: no analysisId key
ErrorResponse(analysisId) ==
    [Payload("response", 0, FALSE, "ERROR", NeutralScore, 0) EXCEPT !.keys = ErrorKeys]

\* what the agent's process_analysis_request returns when it returns
ResultScores == {8000}
ResultConfidences == {9450}

-----------------------------------------------------------------------------
(* config.py: the demo settings, each read from the environment at import  *)

STANLEY_CUP_BOT_PERCENTAGE == 62
STANLEY_CUP_REALITY_SCORE == 34
BUZZ_STOCK_BOT_PERCENTAGE == 87
BUZZ_STOCK_REALITY_SCORE == 12
PRIME_ENERGY_BOT_PERCENTAGE == 71
PRIME_ENERGY_REALITY_SCORE == 29

\* DEMO_CONFIDENCE_SCORE, 94.5, in hundredths
DEMO_CONFIDENCE_SCORE == 9450

\* Config with nothing set in the environment
DefaultConfig ==
    [STANLEY_CUP_BOT_PERCENTAGE |-> STANLEY_CUP_BOT_PERCENTAGE,
     STANLEY_CUP_REALITY_SCORE |-> STANLEY_CUP_REALITY_SCORE,
     BUZZ_STOCK_BOT_PERCENTAGE |-> BUZZ_STOCK_BOT_PERCENTAGE,
     BUZZ_STOCK_REALITY_SCORE |-> BUZZ_STOCK_REALITY_SCORE,
     PRIME_ENERGY_BOT_PERCENTAGE |-> PRIME_ENERGY_BOT_PERCENTAGE,
     PRIME_ENERGY_REALITY_SCORE |-> PRIME_ENERGY_REALITY_SCORE,
     DEMO_ADD_REALISTIC_VARIANCE |-> TRUE,
     DEMO_CONFIDENCE_SCORE |-> DEMO_CONFIDENCE_SCORE]

\* the (bot percentage, reality score) pairs the environment sets for the
\* Stanley Cup demo: the default one and the two at the ends of the scale
PercentagePairs ==
    {<<0, 100>>, <<STANLEY_CUP_BOT_PERCENTAGE, STANLEY_CUP_REALITY_SCORE>>, <<100, 0>>}

\* Config with the Stanley Cup pair and the variance switch set in the environment
Configs ==
    {[DefaultConfig EXCEPT !.STANLEY_CUP_BOT_PERCENTAGE = pair[1],
                           !.STANLEY_CUP_REALITY_SCORE = pair[2],
                           !.DEMO_ADD_REALISTIC_VARIANCE = v] :
        pair \in PercentagePairs, v \in BOOLEAN}

-----------------------------------------------------------------------------
(* base_agent.py: the hardcoded demo responses.  A query is a sequence of   *)
(* words; `phrase in query.lower()` is matched word by word.                *)

Queries ==
    {<<"Stanley", "Cup", "tumbler">>, <<"cup", "stanley">>, <<"buzz", "stock">>,
     <<"garden", "hose">>, <<"Prime", "energy">>, <<"prime", "energy", "stanley", "cup">>,
     <<"prime", "energy", "$BUZZ">>}

\* str.lower() of a word
LowerWord(w) ==
    CASE w = "Stanley" -> "stanley"
      [] w = "Cup" -> "cup"
      [] w = "Prime" -> "prime"
      [] w = "$BUZZ" -> "$buzz"
      [] OTHER -> w

\* query.lower()
Lower(query) == [i \in DOMAIN query |-> LowerWord(query[i])]

\* phrase in text
Contains(text, phrase) ==
    \E i \in 0 .. (Len(text) - Len(phrase)) :
        \A j \in 1 .. Len(phrase) : text[i + j] = phrase[j]

\* the agent types, one for each branch of _create_demo_response
AgentTypes == {"bot-detector", "trend-analyzer", "score-aggregator"}

\* random.randint(-2, 2): a slip that widens it to the score's variance
Jitter_Wide == -5 .. 5

\* random.randint(-2, 2)
Jitter == -2 .. 2

\* random.randint(-5, 5)
ScoreJitter == -5 .. 5

\* max(0, min(100, x))
EnsureBounds(x) == Max(0, Min(100, x))

\* _create_demo_response: jb, jr and js are what the three randint calls
\* return; the score is in points here and in hundredths in the response
CreateDemoResponse(agent_type, analysis_id, bot_percentage, reality_score, jb, jr, js) ==
    LET variance == config.DEMO_ADD_REALISTIC_VARIANCE
        bp == EnsureBounds(IF variance THEN bot_percentage + jb ELSE bot_percentage)
        rs == EnsureBounds(IF variance THEN reality_score + jr ELSE reality_score)
        score == IF agent_type = "bot-detector" THEN 100 - bp
                 ELSE IF agent_type = "score-aggregator" THEN rs
                 ELSE IF variance THEN rs + js ELSE rs
    IN  StandardResponse(analysis_id, score * Hundredths, config.DEMO_CONFIDENCE_SCORE)

\* a slip in the order of the tests: "prime energy" tested first
DemoOf_PrimeFirst(query) ==
    LET q == Lower(query)
    IN  IF Contains(q, <<"prime", "energy">>) THEN "prime energy"
        ELSE IF Contains(q, <<"stanley", "cup">>) THEN "stanley cup"
        ELSE IF Contains(q, <<"$buzz">>) \/ Contains(q, <<"buzz", "stock">>) THEN "buzz stock"
        ELSE "none"

\* the demo a query matches, by the order of the tests of
\* get_hardcoded_demo_response
DemoOf(query) ==
    LET q == Lower(query)
    IN  IF Contains(q, <<"stanley", "cup">>) THEN "stanley cup"
        ELSE IF Contains(q, <<"$buzz">>) \/ Contains(q, <<"buzz", "stock">>) THEN "buzz stock"
        ELSE IF Contains(q, <<"prime", "energy">>) THEN "prime energy"
        ELSE "none"

\* get_hardcoded_demo_response: the (bot percentage, reality score) pair handed
\* to _create_demo_response for a query that matches a demo
DemoPair(query) ==
    CASE DemoOf(query) = "stanley cup" ->
            <<config.STANLEY_CUP_BOT_PERCENTAGE, config.STANLEY_CUP_REALITY_SCORE>>
      [] DemoOf(query) = "buzz stock" ->
            <<config.BUZZ_STOCK_BOT_PERCENTAGE, config.BUZZ_STOCK_REALITY_SCORE>>
      [] OTHER ->
            <<config.PRIME_ENERGY_BOT_PERCENTAGE, config.PRIME_ENERGY_REALITY_SCORE>>

\* get_hardcoded_demo_response, for a query that matches a demo
GetHardcodedDemoResponse(agent_type, query, analysis_id, jb, jr, js) ==
    CreateDemoResponse(agent_type, analysis_id, DemoPair(query)[1], DemoPair(query)[2],
                       jb, jr, js)

-----------------------------------------------------------------------------
(* The agents' own analysis, for a query that matches no demo.  What the    *)
(* analysis draws at random is abstracted to the two numbers it ends with,  *)
(* raw and rawConfidence (hundredths), before the bounds the code puts on   *)
(* them.                                                                    *)

\* total_score of _calculate_bot_percentage, organic_score of
\* _calculate_organic_score
RawScores == {0, 5000, 9700, 20000}

\* confidence before its bounds
RawConfidences == {0, 7500, 12000}

\* bot_detection_agent.py: authenticity_score = 100 - bot_percentage, where
\* _calculate_bot_percentage returns min(total_score, 95)
BotAuthenticityScore(total_score) == 100 * Hundredths - Min(total_score, 95 * Hundredths)

\* bot_detection_agent.py, _calculate_confidence: min(max(confidence, 60), 98)
BotConfidence(confidence) == Min(Max(confidence, 60 * Hundredths), 98 * Hundredths)

\* trend_analysis_agent.py, _calculate_organic_score: max(min(organic_score, 95), 5)
TrendOrganicScore(organic_score) == Max(Min(organic_score, 95 * Hundredths), 5 * Hundredths)

\* trend_analysis_agent.py, _calculate_confidence: max(min(confidence, 98), 60)
TrendConfidence(confidence) == Max(Min(confidence, 98 * Hundredths), 60 * Hundredths)

\* score_aggregator_agent.py, process_analysis_request: the reality score of
\* the agentResults, rounded to two decimals by create_standard_response
AggregatorScore ==
    Round(AggregateAgentResults(agentResults).reality_score, Hundredths) \div Hundredths

\* score_aggregator_agent.py, process_analysis_request: the overall
\* confidence, rounded to two decimals by create_standard_response
AggregatorConfidence ==
    Round(AggregateAgentResults(agentResults).confidence, ConfUnit \div Hundredths)
        \div (ConfUnit \div Hundredths)

\* the score of the agent's own analysis
OwnScore(agent_type, raw) ==
    CASE agent_type = "bot-detector" -> BotAuthenticityScore(raw)
      [] agent_type = "score-aggregator" -> AggregatorScore
      [] OTHER -> TrendOrganicScore(raw)

\* the confidence of the agent's own analysis
OwnConfidence(agent_type, rawConfidence) ==
    CASE agent_type = "bot-detector" -> BotConfidence(rawConfidence)
      [] agent_type = "score-aggregator" -> AggregatorConfidence
      [] OTHER -> TrendConfidence(rawConfidence)

\* what process_analysis_request did: the agent type, the query, whether the
\* agent's own analysis was invoked, the demo pair used, the response returned
NoResult ==
    [done |-> FALSE, agent_type |-> "none", query |-> <<>>, analysed |-> FALSE,
     pair |-> <<0, 0>>, response |-> NoPayload]

\* the analysisId of the requests handed to process_analysis_request
AnalysisIds == {1}

\* process_analysis_request with a query that matches a demo; a draw the
\* agent's branch makes no use of is taken as 0
DemoRequest(agent_type, query, jb, jr, js) ==
    /\ agent_type = "bot-detector" => (jr = 0 /\ js = 0)
    /\ agent_type = "score-aggregator" => (jb = 0 /\ js = 0)
    /\ agent_type = "trend-analyzer" => jb = 0
    /\ DemoOf(query) # "none"
    /\ \E id \in AnalysisIds :
          result' = [done |-> TRUE, agent_type |-> agent_type, query |-> query,
                     analysed |-> FALSE, pair |-> DemoPair(query),
                     response |-> GetHardcodedDemoResponse(agent_type, query, id, jb, jr, js)]
    /\ UNCHANGED <<aggVars, clientVars, orchVars, config, agentVars, busVars>>

\* process_analysis_request with a query that matches no demo; the aggregator
\* draws nothing, its two numbers are taken as 0
OwnRequest(agent_type, query, raw, rawConfidence) ==
    /\ agent_type = "score-aggregator" => (raw = 0 /\ rawConfidence = 0)
    /\ DemoOf(query) = "none"
    /\ \E id \in AnalysisIds :
          result' = [done |-> TRUE, agent_type |-> agent_type, query |-> query,
                     analysed |-> TRUE, pair |-> <<0, 0>>,
                     response |-> StandardResponse(id, OwnScore(agent_type, raw),
                                                   OwnConfidence(agent_type, rawConfidence))]
    /\ UNCHANGED <<aggVars, clientVars, orchVars, config, agentVars, busVars>>

-----------------------------------------------------------------------------
(* Threads *)

Thread(pc, handler, payload, pub, slot) ==
    [pc |-> pc,             \* where the thread is
     handler |-> handler,   \* the callable it runs ("caller": an environment thread)
     payload |-> payload,   \* the message it was started with
     pub |-> pub,           \* the publish() call that started it
     slot |-> slot,         \* its handler's place in the topic's list at that call
     outcome |-> "none",    \* how the handler's own computation ended
     out |-> NoPayload,     \* the payload it is publishing
     outTopic |-> "none",   \* the topic it is publishing to
     outPub |-> 0,          \* the number of its publish() call
     idx |-> 0,             \* the next handler of the list to dispatch
     ret |-> "none"]        \* where it continues when publish() returns

Unused == Thread("unused", "none", NoPayload, 0, 0)
IdleCaller == Thread("idle", "caller", NoPayload, 0, 0)

FreeSlots == {t \in HandlerThreads : threads[t].pc = "unused"}

\* the lowest unused thread slot
NextSlot == CHOOSE t \in FreeSlots : \A u \in FreeSlots : t <= u

\* list.get of the registry: the handlers of a topic
HandlersOf(topic) == IF topic \in DOMAIN subscribers THEN subscribers[topic] ELSE <<>>

-----------------------------------------------------------------------------
(* base_agent.py: InMemoryMessageBus *)

\* a slip: the handler put at the head of the topic's list
Subscribe_Prepend(topic, h) ==
    /\ lock = 0
    /\ subscribers' = [subscribers EXCEPT ![topic] = <<h>> \o @]

\* subscribe(): the handler is appended to the topic's list, under the lock
Subscribe(topic, h) ==
    /\ lock = 0
    /\ subscribers' = [subscribers EXCEPT ![topic] = Append(@, h)]

\* the environment subscribes a callable to a topic
EnvSubscribe(topic, h) ==
    /\ Len(subscribers[TOPICS.BOT_DETECTOR_REQUEST])
         + Len(subscribers[TOPICS.BOT_DETECTOR_RESPONSE]) < MaxSubs
    /\ Subscribe(topic, h)
    /\ UNCHANGED <<aggVars, clientVars, orchVars, demoVars, agentVars,
                   lock, threads, pubCount, published>>

\* an environment thread calls publish(topic, message)
EnvPublish(c, topic, kind) ==
    /\ threads[c].pc = "idle"
    /\ pubCount < MaxMsgs
    /\ threads' = [threads EXCEPT ![c] =
                      [@ EXCEPT !.pc = "bus_acquire",
                                !.out = IF kind = "request" THEN Request(pubCount + 1)
                                        ELSE Garbage(pubCount + 1),
                                !.outTopic = topic,
                                !.outPub = pubCount + 1,
                                !.ret = "idle"]]
    /\ pubCount' = pubCount + 1
    /\ UNCHANGED <<aggVars, clientVars, orchVars, demoVars, agentVars,
                   subscribers, lock, published>>

\* publish(): `with self.lock` is entered
PublishAcquire(t) ==
    /\ threads[t].pc = "bus_acquire"
    /\ lock = 0
    /\ Cardinality(FreeSlots) >= Len(HandlersOf(threads[t].outTopic))
    /\ lock' = t
    /\ threads' = [threads EXCEPT ![t] = [@ EXCEPT !.pc = "bus_dispatch", !.idx = 1]]
    /\ published' = published \cup
                       {[pub |-> threads[t].outPub, topic |-> threads[t].outTopic,
                         via |-> "bus", by |-> threads[t].handler,
                         payload |-> threads[t].out,
                         handlers |-> HandlersOf(threads[t].outTopic)]}
    /\ UNCHANGED <<aggVars, clientVars, orchVars, demoVars, agentVars, subscribers, pubCount>>

\* the threads this publish() call has started
Started(ths, t) ==
    {u \in HandlerThreads : ths[u].pc # "unused" /\ ths[u].pub = ths[t].outPub}

\* a slip: the handler called in the publisher's thread, which goes on only
\* when the handler has returned
StartReturns_Inline(ths, t) ==
    \A u \in Started(ths, t) : ths[u].pc \in {"done", "raised"}

\* Thread(target=handler, args=(message,)).start() returns once the thread is
\* started, whatever the handler does
StartReturns(ths, t) == TRUE

\* a slip: the loop over the handlers left after the first one
DispatchList_FirstOnly(hs) == IF hs = <<>> THEN <<>> ELSE <<hs[1]>>

\* the handlers the loop of publish() goes through
DispatchList(hs) == hs

\* publish(): one turn of the loop, a thread is started for the next handler
PublishDispatch(t) ==
    LET hs == DispatchList(HandlersOf(threads[t].outTopic))
        i == threads[t].idx
    IN  /\ threads[t].pc = "bus_dispatch"
        /\ i <= Len(hs)
        /\ StartReturns(threads, t)
        /\ FreeSlots # {}
        /\ threads' = [threads EXCEPT
                          ![t] = [@ EXCEPT !.idx = i + 1],
                          ![NextSlot] = Thread(IF hs[i] \in Instances THEN "decode" ELSE "run",
                                               hs[i], threads[t].out, threads[t].outPub, i)]
        /\ UNCHANGED <<aggVars, clientVars, orchVars, demoVars, agentVars,
                       subscribers, lock, pubCount, published>>

\* a slip: the lock still held when publish() returns
WithLockExit_Held(t) == t

\* leaving `with self.lock`: the lock is free again
WithLockExit(t) == 0

\* publish(): the loop is over, the lock is released and the call returns; in
\* _process_message the statement after _publish_response(result) then counts
\* the message as processed
PublishRelease(t) ==
    LET hs == DispatchList(HandlersOf(threads[t].outTopic))
        counts == threads[t].ret = "count"
    IN  /\ threads[t].pc = "bus_dispatch"
        /\ threads[t].idx > Len(hs)
        /\ StartReturns(threads, t)
        /\ lock' = WithLockExit(t)
        /\ threads' = [threads EXCEPT ![t] =
                          IF t \in Callers THEN IdleCaller
                          ELSE [@ EXCEPT !.pc = "done"]]
        /\ processing_count' =
               IF counts
               THEN [processing_count EXCEPT ![threads[t].handler] = @ + 1]
               ELSE processing_count
        /\ UNCHANGED <<aggVars, clientVars, orchVars, demoVars, solaceAvailable, loops,
                       is_running, use_fallback,
                       messaging_service, publisher, receiver, brokerSubscribed,
                       error_count, starts, connectAttempts, lastStart, stopLog,
                       subscribers,
                       pubCount, published>>

\* a generic handler runs in its thread: it returns, raises or never returns
GenericRun(t, o) ==
    /\ threads[t].pc = "run"
    /\ threads' = [threads EXCEPT ![t] =
                      [@ EXCEPT !.outcome = o,
                                !.pc = CASE o = "return" -> "done"
                                         [] o = "raise" -> "raised"
                                         [] OTHER -> "hung"]]
    /\ UNCHANGED <<aggVars, clientVars, orchVars, demoVars, agentVars,
                   subscribers, lock, pubCount, published>>

\* a generic handler calls publish() of the bus from its thread, as an agent's
\* handler does with its response
GenericPublish(t, topic) ==
    /\ threads[t].pc = "run"
    /\ pubCount < MaxMsgs
    /\ threads' = [threads EXCEPT ![t] =
                      [@ EXCEPT !.outcome = "publish",
                                !.pc = "bus_acquire",
                                !.out = Request(pubCount + 1),
                                !.outTopic = topic,
                                !.outPub = pubCount + 1,
                                !.ret = "done"]]
    /\ pubCount' = pubCount + 1
    /\ UNCHANGED <<aggVars, clientVars, orchVars, demoVars, agentVars,
                   subscribers, lock, published>>

\* a generic handler calls subscribe() of the bus from its thread and returns
GenericSubscribe(t, topic, h) ==
    /\ threads[t].pc = "run"
    /\ Len(subscribers[TOPICS.BOT_DETECTOR_REQUEST])
         + Len(subscribers[TOPICS.BOT_DETECTOR_RESPONSE]) < MaxSubs
    /\ Subscribe(topic, h)
    /\ threads' = [threads EXCEPT ![t] = [@ EXCEPT !.outcome = "subscribe", !.pc = "done"]]
    /\ UNCHANGED <<aggVars, clientVars, orchVars, demoVars, agentVars, lock, pubCount, published>>

-----------------------------------------------------------------------------
(* base_agent.py: BaseAgent.start and stop *)

\* where the broker makes _connect_solace raise: at connect(), at
\* publisher.start(), at receiver.start(), at add_subscription(), or nowhere
ConnectFailures == {"connect", "publisher_start", "receiver_start", "subscribe", "none"}

\* _connect_solace: the fields it has assigned when it stops, and whether it
\* raised; the request topic is resolved once the receiver is started
ConnectSolace(a, failAt) ==
    IF failAt = "connect"
    THEN [raised |-> TRUE, service |-> "built", publisher |-> publisher[a],
          receiver |-> receiver[a], subscribed |-> brokerSubscribed[a]]
    ELSE IF failAt = "publisher_start"
    THEN [raised |-> TRUE, service |-> "up", publisher |-> "built",
          receiver |-> receiver[a], subscribed |-> brokerSubscribed[a]]
    ELSE IF failAt = "receiver_start"
    THEN [raised |-> TRUE, service |-> "up", publisher |-> "up",
          receiver |-> "built", subscribed |-> brokerSubscribed[a]]
    ELSE IF GetRequestTopic(a).raised \/ failAt = "subscribe"
    THEN [raised |-> TRUE, service |-> "up", publisher |-> "up",
          receiver |-> "up", subscribed |-> FALSE]
    ELSE [raised |-> FALSE, service |-> "up", publisher |-> "up",
          receiver |-> "up", subscribed |-> TRUE]

\* a slip: start() connecting to the broker whatever use_fallback says
ShouldConnect_Always(a) == TRUE

\* start(): `if not self.use_fallback`
ShouldConnect(a) == ~use_fallback[a]

\* _start_message_processing: one more thread runs processing_loop
StartMessageProcessing(n) == n + 1

\* start(): the broker is tried unless the agent is in fallback mode; a failure
\* switches to fallback mode; in fallback mode the handler is subscribed on the
\* bus (_setup_fallback_messaging), whose topic resolution may raise out of
\* start(); then the agent is marked running
StartCall(a, failAt) ==
    LET try == ShouldConnect(a)
        c == ConnectSolace(a, failAt)
        fb == use_fallback[a] \/ (try /\ c.raised)
        topic == GetRequestTopic(a)
        raises == fb /\ topic.raised
    IN  /\ starts[a] < MaxStarts
        /\ ~try => failAt = "none"
        /\ starts' = [starts EXCEPT ![a] = @ + 1]
        /\ connectAttempts' = [connectAttempts EXCEPT ![a] = IF try THEN @ + 1 ELSE @]
        /\ messaging_service' = [messaging_service EXCEPT ![a] = IF try THEN c.service ELSE @]
        /\ publisher' = [publisher EXCEPT ![a] = IF try THEN c.publisher ELSE @]
        /\ receiver' = [receiver EXCEPT ![a] = IF try THEN c.receiver ELSE @]
        /\ brokerSubscribed' = [brokerSubscribed EXCEPT ![a] = IF try THEN c.subscribed ELSE @]
        /\ use_fallback' = [use_fallback EXCEPT ![a] = fb]
        /\ IF fb /\ ~topic.raised
           THEN Subscribe(topic.topic, a)
           ELSE UNCHANGED subscribers
        /\ is_running' = [is_running EXCEPT ![a] = IF raises THEN @ ELSE TRUE]
        /\ lastStart' = [lastStart EXCEPT ![a] = IF raises THEN "raised" ELSE "returned"]
        /\ loops' = [loops EXCEPT ![a] = IF raises THEN @ ELSE StartMessageProcessing(@)]
        /\ UNCHANGED <<aggVars, clientVars, demoVars, solaceAvailable, processing_count,
                       error_count, stopLog, lock, threads, pubCount, published>>

\* start() called on an agent that no orchestrator runs
Start(a, failAt) == StartCall(a, failAt) /\ UNCHANGED orchVars

\* terminate() or disconnect() of a resource the agent holds
Closed(r) == IF r = "none" THEN "none" ELSE "closed"

\* the threads running the agent's handler that have not finished
InFlight(a) ==
    {t \in HandlerThreads :
        /\ threads[t].handler = a
        /\ threads[t].pc \in {"decode", "compute", "publish", "publish_err",
                               "bus_acquire", "bus_dispatch"}}

NoStop == [stopped |-> FALSE, pub |-> 0, inFlight |-> {}]

\* stop()
StopCall(a) ==
    /\ is_running' = [is_running EXCEPT ![a] = FALSE]
    /\ stopLog' = [stopLog EXCEPT ![a] =
                       IF @.stopped THEN @
                       ELSE [stopped |-> TRUE, pub |-> pubCount, inFlight |-> InFlight(a)]]
    /\ receiver' = [receiver EXCEPT ![a] = Closed(@)]
    /\ publisher' = [publisher EXCEPT ![a] = Closed(@)]
    /\ messaging_service' = [messaging_service EXCEPT ![a] = Closed(@)]
    /\ brokerSubscribed' = [brokerSubscribed EXCEPT ![a] = FALSE]
    /\ UNCHANGED <<aggVars, clientVars, demoVars, solaceAvailable, loops, use_fallback,
                   processing_count, error_count, starts, connectAttempts, lastStart,
                   busVars>>

\* stop() called on an agent that no orchestrator runs
Stop(a) == StopCall(a) /\ UNCHANGED orchVars

-----------------------------------------------------------------------------
(* solace_client.py: SolaceClient.  The client is in mock mode when the     *)
(* broker library did not import.  A resource field is "none" (None),       *)
(* "built" (the object is assigned, its connect() or start() has not        *)
(* returned) or "up".                                                       *)

\* connect() calls a run makes that get to the broker
MaxConnects == 4
\* publish_message() calls a run makes that send
MaxSent == 2

\* __init__
NewClient ==
    [is_connected |-> FALSE,
     messaging_service |-> "none",
     publisher |-> "none",
     receiver |-> "none",
     message_handlers |-> [topic \in {} |-> "none"],
     subscriptions |-> {},
     messages_sent |-> 0,         \* stats['messages_sent']
     connection_attempts |-> 0,   \* stats['connection_attempts']
     last_error |-> FALSE]        \* stats['last_error'] is set

\* a call on the client: the method, whether a broker operation failed during
\* it, and how it ended: "True", "False", "None" or "raised"
Call(op, failed, ret) == [op |-> op, failed |-> failed, ret |-> ret]

NoCall == Call("none", FALSE, "none")

\* where the broker makes connect() fail: at build(), at
\* messaging_service.connect(), at publisher.start(), at receiver.start(),
\* or nowhere
ClientConnectFailures == {"build", "connect", "publisher_start", "receiver_start", "none"}

\* the terminate() or disconnect() that raises in _cleanup_connection, if any
CleanupFailures == {"receiver", "publisher", "service", "none"}

\* _cleanup_connection: each resource held is terminated and its field set to
\* None, receiver first; an exception ends the clean-up where it is raised and
\* is logged
CleanupConnection(c, failAt) ==
    IF c.receiver # "none" /\ failAt = "receiver" THEN c
    ELSE LET c1 == [c EXCEPT !.receiver = "none"]
         IN  IF c1.publisher # "none" /\ failAt = "publisher" THEN c1
             ELSE LET c2 == [c1 EXCEPT !.publisher = "none"]
                  IN  IF c2.messaging_service # "none" /\ failAt = "service" THEN c2
                      ELSE [c2 EXCEPT !.messaging_service = "none"]

\* a slip: connect() without its try/except
ConnectExcept_Propagates == "raised"

\* connect(): `except Exception` ends with `return False`
ConnectExcept == "False"

\* connect(): the client after the call and what the call returned
Connect(c, mock, failAt, cleanupFail) ==
    IF c.is_connected THEN [c |-> c, failed |-> FALSE, ret |-> "True"]
    ELSE IF mock THEN [c |-> [c EXCEPT !.is_connected = TRUE], failed |-> FALSE, ret |-> "True"]
    ELSE LET counted == [c EXCEPT !.connection_attempts = @ + 1]
             tried ==
                 CASE failAt = "build" -> counted
                   [] failAt = "connect" -> [counted EXCEPT !.messaging_service = "built"]
                   [] failAt = "publisher_start" ->
                         [counted EXCEPT !.messaging_service = "up", !.publisher = "built"]
                   [] failAt = "receiver_start" ->
                         [counted EXCEPT !.messaging_service = "up", !.publisher = "up",
                                         !.receiver = "built"]
                   [] OTHER ->
                         [counted EXCEPT !.messaging_service = "up", !.publisher = "up",
                                         !.receiver = "up"]
         IN  IF failAt = "none"
             THEN [c |-> [tried EXCEPT !.is_connected = TRUE], failed |-> FALSE, ret |-> "True"]
             ELSE [c |-> CleanupConnection([tried EXCEPT !.last_error = TRUE], cleanupFail),
                   failed |-> TRUE, ret |-> ConnectExcept]

\* disconnect(): nothing when not connected; else the resources are cleaned up
\* and is_connected cleared (_cleanup_connection raises nothing)
Disconnect(c, cleanupFail) ==
    IF ~c.is_connected THEN c
    ELSE [CleanupConnection(c, cleanupFail) EXCEPT !.is_connected = FALSE]

\* publish_message(): a disconnected client connects first; in mock mode the
\* message is counted; else it is built and published, and an exception is
\* recorded and answered with False
PublishMessage(c, mock, failAt, cleanupFail, pubFails) ==
    LET k == Connect(c, mock, failAt, cleanupFail)
        raises == pubFails \/ k.c.messaging_service = "none" \/ k.c.publisher = "none"
    IN  IF k.ret # "True" THEN k
        ELSE IF mock
        THEN [c |-> [k.c EXCEPT !.messages_sent = @ + 1], failed |-> FALSE, ret |-> "True"]
        ELSE IF raises
        THEN [c |-> [k.c EXCEPT !.last_error = TRUE], failed |-> TRUE, ret |-> "False"]
        ELSE [c |-> [k.c EXCEPT !.messages_sent = @ + 1], failed |-> FALSE, ret |-> "True"]

\* message_handlers[topic] = message_handler; subscriptions.add(topic)
Registered(c, topic, h) ==
    [c EXCEPT !.message_handlers =
                  [t \in DOMAIN @ \cup {topic} |-> IF t = topic THEN h ELSE @[t]],
              !.subscriptions = @ \cup {topic}]

\* subscribe_to_topic(): `except Exception` records the error, nothing else
SubscribeFailed(c, topic, h) == [c EXCEPT !.last_error = TRUE]

\* subscribe_to_topic(): a disconnected client connects first; in mock mode
\* the handler is registered; else receive_async is called first, and an
\* exception is recorded and answered with False
SubscribeToTopic(c, mock, topic, h, failAt, cleanupFail, subFails) ==
    LET k == Connect(c, mock, failAt, cleanupFail)
        raises == subFails \/ k.c.receiver = "none"
    IN  IF k.ret # "True" THEN k
        ELSE IF mock THEN [c |-> Registered(k.c, topic, h), failed |-> FALSE, ret |-> "True"]
        ELSE IF raises
        THEN [c |-> SubscribeFailed(k.c, topic, h), failed |-> TRUE, ret |-> "False"]
        ELSE [c |-> Registered(k.c, topic, h), failed |-> FALSE, ret |-> "True"]

\* subscriptions.discard(topic); message_handlers.pop(topic, None)
Unregistered(c, topic) ==
    [c EXCEPT !.message_handlers = [t \in DOMAIN @ \ {topic} |-> @[t]],
              !.subscriptions = @ \ {topic}]

\* unsubscribe_from_topic()
UnsubscribeFromTopic(c, mock, topic, unsubFails) ==
    IF topic \notin c.subscriptions THEN [c |-> c, failed |-> FALSE, ret |-> "True"]
    ELSE IF mock THEN [c |-> Unregistered(c, topic), failed |-> FALSE, ret |-> "True"]
    ELSE IF unsubFails \/ c.receiver = "none"
    THEN [c |-> [c EXCEPT !.last_error = TRUE], failed |-> TRUE, ret |-> "False"]
    ELSE [c |-> Unregistered(c, topic), failed |-> FALSE, ret |-> "True"]

\* the failures a call can meet: none in mock mode, none at connect when the
\* client is connected, a clean-up failure only when connect() cleans up
Meets(mock, connected, failAt, cleanupFail, opFails) ==
    /\ mock => failAt = "none" /\ ~opFails
    /\ connected => failAt = "none"
    /\ failAt = "none" => cleanupFail = "none"
    /\ failAt # "none" => ~opFails

\* a connect that gets to the broker is within the bound
ConnectBound(failAt) ==
    (~client.is_connected /\ solaceAvailable) => client.connection_attempts < MaxConnects

ClientConnect(failAt, cleanupFail) ==
    LET k == Connect(client, ~solaceAvailable, failAt, cleanupFail)
    IN  /\ Meets(~solaceAvailable, client.is_connected, failAt, cleanupFail, FALSE)
        /\ ConnectBound(failAt)
        /\ client' = k.c
        /\ clientCall' = Call("connect", k.failed, k.ret)
        /\ UNCHANGED <<aggVars, demoVars, agentVars, busVars, orchVars>>

ClientDisconnect(cleanupFail) ==
    /\ (~solaceAvailable \/ ~client.is_connected) => cleanupFail = "none"
    /\ client' = Disconnect(client, cleanupFail)
    /\ clientCall' = Call("disconnect", FALSE, "None")
    /\ UNCHANGED <<aggVars, demoVars, agentVars, busVars, orchVars>>

ClientPublish(failAt, cleanupFail, pubFails) ==
    LET k == PublishMessage(client, ~solaceAvailable, failAt, cleanupFail, pubFails)
    IN  /\ Meets(~solaceAvailable, client.is_connected, failAt, cleanupFail, pubFails)
        /\ ConnectBound(failAt)
        /\ client.messages_sent < MaxSent
        /\ client' = k.c
        /\ clientCall' = Call("publish", k.failed, k.ret)
        /\ UNCHANGED <<aggVars, demoVars, agentVars, busVars, orchVars>>

ClientSubscribe(topic, h, failAt, cleanupFail, subFails) ==
    LET k == SubscribeToTopic(client, ~solaceAvailable, topic, h, failAt, cleanupFail,
                              subFails)
    IN  /\ Meets(~solaceAvailable, client.is_connected, failAt, cleanupFail, subFails)
        /\ ConnectBound(failAt)
        /\ client' = k.c
        /\ clientCall' = Call("subscribe", k.failed, k.ret)
        /\ UNCHANGED <<aggVars, demoVars, agentVars, busVars, orchVars>>

ClientUnsubscribe(topic, unsubFails) ==
    LET k == UnsubscribeFromTopic(client, ~solaceAvailable, topic, unsubFails)
    IN  /\ (~solaceAvailable \/ topic \notin client.subscriptions) => ~unsubFails
        /\ client' = k.c
        /\ clientCall' = Call("unsubscribe", k.failed, k.ret)
        /\ UNCHANGED <<aggVars, demoVars, agentVars, busVars, orchVars>>

-----------------------------------------------------------------------------
(* start_all_agents.py: AgentOrchestrator, for the one agent class of the   *)
(* model.  agent_threads[a] is where the thread running _run_agent(a) is:   *)
(* "none" (not started), "start" (about to call a.start()), "wait" (in the  *)
(* loop that waits for the shutdown event or for the agent to stop),        *)
(* "finally" (start() raised, the finally block is next) or "done".         *)

\* start_all_agents(): the agents are constructed and a thread is started
\* for each
StartAllAgents ==
    /\ orch_agents = <<>>
    /\ \E a \in Agents :
          /\ orch_agents' = <<a>>
          /\ agent_threads' = [agent_threads EXCEPT ![a] = "start"]
    /\ UNCHANGED <<aggVars, demoVars, agentVars, busVars, clientVars, shutdown_event,
                   restartLog>>

\* _run_agent: agent.start(); an exception is caught and leads to the finally
\* block
RunAgentStart(a, failAt) ==
    /\ agent_threads[a] = "start"
    /\ StartCall(a, failAt)
    /\ agent_threads' =
           [agent_threads EXCEPT ![a] = IF lastStart'[a] = "returned" THEN "wait"
                                        ELSE "finally"]
    /\ UNCHANGED <<orch_agents, shutdown_event, restartLog>>

\* _run_agent: the waiting loop ends (`while not self.shutdown_event.is_set()
\* and agent.is_running`), or start() had raised; the finally block calls
\* agent.stop() and the thread ends
RunAgentFinally(a) ==
    /\ \/ agent_threads[a] = "finally"
       \/ agent_threads[a] = "wait" /\ (shutdown_event \/ ~is_running[a])
    /\ StopCall(a)
    /\ agent_threads' = [agent_threads EXCEPT ![a] = "done"]
    /\ UNCHANGED <<orch_agents, shutdown_event, restartLog>>

\* stop_all_agents(): the shutdown event is set and stop() called on every
\* agent of the list
StopAllAgents ==
    /\ orch_agents # <<>>
    /\ shutdown_event' = TRUE
    /\ StopCall(orch_agents[1])
    /\ UNCHANGED <<orch_agents, agent_threads, restartLog>>

\* restart_failed_agents(): an agent of the list that is not running is
\* stopped and replaced by a new instance of its class, for which a thread is
\* started
RestartFailedAgents(new) ==
    /\ orch_agents # <<>>
    /\ ~is_running[orch_agents[1]]
    /\ new \in Restarted
    /\ new # orch_agents[1]
    /\ agent_threads[new] = "none"
    /\ StopCall(orch_agents[1])
    /\ orch_agents' = [orch_agents EXCEPT ![1] = new]
    /\ agent_threads' = [agent_threads EXCEPT ![new] = "start"]
    /\ restartLog' = restartLog \cup {[old |-> orch_agents[1], new |-> new, pub |-> pubCount]}
    /\ UNCHANGED shutdown_event

-----------------------------------------------------------------------------
(* base_agent.py: the message handler, run in a thread publish() started *)

\* a slip: a decoder that lets any text through
JsonLoads_Lenient(payload) == "ok"

\* json.loads(payload)
JsonLoads(payload) == IF payload.kind = "garbage" THEN "JSONDecodeError" ELSE "ok"

\* _process_message: json.loads; a JSONDecodeError is counted and the message
\* dropped
HandlerDecode(t) ==
    LET a == threads[t].handler
        bad == JsonLoads(threads[t].payload) = "JSONDecodeError"
    IN  /\ threads[t].pc = "decode"
        /\ threads' = [threads EXCEPT ![t] =
                          [@ EXCEPT !.pc = IF bad THEN "done" ELSE "compute",
                                    !.outcome = IF bad THEN "decode_error" ELSE @]]
        /\ error_count' = [error_count EXCEPT ![a] = IF bad THEN @ + 1 ELSE @]
        /\ UNCHANGED <<aggVars, clientVars, orchVars, demoVars, solaceAvailable, loops,
                       is_running, use_fallback,
                       messaging_service, publisher, receiver, brokerSubscribed,
                       processing_count, starts, connectAttempts, lastStart,
                       stopLog, subscribers, lock, pubCount, published>>

\* _process_message: process_analysis_request returns a result, raises (the
\* error is counted and an error response built), or never returns
HandlerCompute(t, o) ==
    LET a == threads[t].handler
        id == threads[t].payload.id
    IN  /\ threads[t].pc = "compute"
        /\ \E score \in ResultScores, confidence \in ResultConfidences :
             threads' = [threads EXCEPT ![t] =
                 [@ EXCEPT !.outcome = o,
                           !.pc = CASE o = "return" -> "publish"
                                    [] o = "raise" -> "publish_err"
                                    [] OTHER -> "hung",
                           !.out = CASE o = "return" -> StandardResponse(id, score, confidence)
                                     [] o = "raise" -> ErrorResponse(id)
                                     [] OTHER -> @]]
        /\ error_count' = [error_count EXCEPT ![a] = IF o = "raise" THEN @ + 1 ELSE @]
        /\ UNCHANGED <<aggVars, clientVars, orchVars, demoVars, solaceAvailable, loops,
                       is_running, use_fallback,
                       messaging_service, publisher, receiver, brokerSubscribed,
                       processing_count, starts, connectAttempts, lastStart,
                       stopLog, subscribers, lock, pubCount, published>>

\* a slip: the handler without its try/except, the exception ending the thread
HandlerExcept_Propagates == "raised"

\* _handle_fallback_message: an exception out of _process_message is caught
\* (and counted), and the handler returns
HandlerExcept == "done"

\* _publish_response: `if not self.use_fallback and self.publisher`
UsesBroker(a) == ~use_fallback[a] /\ publisher[a] # "none"

\* _publish_response, up to the transport.  The response topic is resolved
\* first; if that raises, a result becomes an error response (the error is
\* counted) and an error response is given up (_handle_fallback_message counts
\* the error).  Else the payload goes to the broker and, if that fails or the
\* agent is in fallback mode, to publish() of the bus.
HandlerPublish(t, brokerOk) ==
    LET a == threads[t].handler
        th == threads[t]
        topic == GetResponseTopic(a)
        sent == UsesBroker(a) /\ brokerOk /\ publisher[a] = "up"
        counts == th.pc = "publish"
    IN  /\ th.pc \in {"publish", "publish_err"}
        /\ ~(~topic.raised /\ UsesBroker(a)) => brokerOk
        /\ threads' = [threads EXCEPT ![t] =
              IF topic.raised
              THEN [@ EXCEPT !.pc = IF counts THEN "publish_err" ELSE HandlerExcept,
                             !.out = IF counts THEN ErrorResponse(th.payload.id) ELSE @]
              ELSE IF sent
              THEN [@ EXCEPT !.pc = "done", !.outTopic = topic.topic,
                             !.outPub = pubCount + 1]
              ELSE [@ EXCEPT !.pc = "bus_acquire", !.outTopic = topic.topic,
                             !.outPub = pubCount + 1,
                             !.ret = IF counts THEN "count" ELSE "done"]]
        /\ error_count' = [error_count EXCEPT ![a] = IF topic.raised THEN @ + 1 ELSE @]
        /\ processing_count' =
               [processing_count EXCEPT ![a] =
                   IF ~topic.raised /\ sent /\ counts THEN @ + 1 ELSE @]
        /\ pubCount' = IF topic.raised THEN pubCount ELSE pubCount + 1
        /\ published' =
               IF ~topic.raised /\ sent
               THEN published \cup {[pub |-> pubCount + 1, topic |-> topic.topic,
                                     via |-> "broker", by |-> a, payload |-> th.out,
                                     handlers |-> <<>>]}
               ELSE published
        /\ UNCHANGED <<aggVars, clientVars, orchVars, demoVars, solaceAvailable, loops,
                       is_running, use_fallback,
                       messaging_service, publisher, receiver, brokerSubscribed,
                       starts, connectAttempts, lastStart, stopLog, subscribers, lock>>

\* the runtime after import and construction of the agents
InitRuntime ==
    /\ is_running = [a \in Instances |-> FALSE]
    /\ use_fallback = [a \in Instances |-> ~solaceAvailable]
    /\ messaging_service = [a \in Instances |-> "none"]
    /\ publisher = [a \in Instances |-> "none"]
    /\ receiver = [a \in Instances |-> "none"]
    /\ brokerSubscribed = [a \in Instances |-> FALSE]
    /\ processing_count = [a \in Instances |-> 0]
    /\ error_count = [a \in Instances |-> 0]
    /\ starts = [a \in Instances |-> 0]
    /\ connectAttempts = [a \in Instances |-> 0]
    /\ lastStart = [a \in Instances |-> "none"]
    /\ stopLog = [a \in Instances |-> NoStop]
    /\ subscribers = [topic \in Topics |-> <<>>]
    /\ lock = 0
    /\ threads = [t \in AllThreads |-> IF t \in Callers THEN IdleCaller ELSE Unused]
    /\ pubCount = 0
    /\ published = {}
    /\ loops = [a \in Instances |-> 0]
    /\ client = NewClient
    /\ clientCall = NoCall
    /\ orch_agents = <<>>
    /\ shutdown_event = FALSE
    /\ agent_threads = [a \in Instances |-> "none"]
    /\ restartLog = {}

-----------------------------------------------------------------------------
(* The aggregator as a state machine: an input is chosen, then aggregated. *)

InitAgg ==
    /\ agentResults \in [SignalAgents -> Entries]
    /\ aggregate = NoAggregate
    /\ previous = NoAggregate
    /\ aggregations = 0
    /\ config = DefaultConfig
    /\ result = NoResult
    /\ solaceAvailable = FALSE
    /\ InitRuntime

\* one more _aggregate_agent_results call on the same agentResults
Aggregate ==
    /\ aggregations < MaxAggregations
    /\ previous' = aggregate
    /\ aggregate' = AggregateAgentResults(agentResults)
    /\ aggregations' = aggregations + 1
    /\ UNCHANGED <<agentResults, demoVars, clientVars, orchVars, agentVars, busVars>>

NextAgg == Aggregate

SpecAgg == InitAgg /\ [][NextAgg]_vars

-----------------------------------------------------------------------------
(* The aggregator's confidence as a state machine: the inputs carry         *)
(* confidences, and in-range scores.                                        *)

ConfScores == {0, 4000, 5000, 10000}
ConfVals == {0, 6000, 10000}

ConfEntries ==
    {Absent}
        \cup {Scored(s) : s \in ConfScores}
        \cup {WithConfidence(Scored(s), c) : s \in ConfScores, c \in ConfVals}
        \cup {WithConfidence(NoScoreResult, c) : c \in ConfVals}

InitConf ==
    /\ agentResults \in [SignalAgents -> ConfEntries]
    /\ aggregate = NoAggregate
    /\ previous = NoAggregate
    /\ aggregations = 0
    /\ config = DefaultConfig
    /\ result = NoResult
    /\ solaceAvailable = FALSE
    /\ InitRuntime

SpecConf == InitConf /\ [][NextAgg]_vars

-----------------------------------------------------------------------------
(* The aggregator with agents missing: each entry of agentResults is absent, *)
(* empty, null, the error response of an agent that failed, or a complete    *)
(* response with its evidence.                                               *)

\* the error response as an entry of agentResults: a score, a confidence, no
\* evidence and no data sources
ErrorEntry == WithConfidence(Scored(ErrorResponse(0).score), ErrorResponse(0).confidence)

\* a response made by create_standard_response
Complete(score, confidence) == WithEvidence(WithConfidence(Scored(score), confidence))

MissingScores == {0, 3400, 10000}
MissingConfidences == {9000}

MissingEntries ==
    {Absent, EmptyDict, Null, ErrorEntry}
        \cup {Complete(s, c) : s \in MissingScores, c \in MissingConfidences}

InitMissing ==
    /\ agentResults \in [SignalAgents -> MissingEntries]
    /\ aggregate = NoAggregate
    /\ previous = NoAggregate
    /\ aggregations = 0
    /\ config = DefaultConfig
    /\ result = NoResult
    /\ solaceAvailable = FALSE
    /\ InitRuntime

SpecMissing == InitMissing /\ [][NextAgg]_vars

-----------------------------------------------------------------------------
(* process_analysis_request as a state machine: any configuration of the    *)
(* Stanley Cup demo, any sequence of requests to agents of the three kinds, *)
(* with the bot-detector instance started and stopped in between.           *)

InitDemo ==
    /\ agentResults = [a \in SignalAgents |-> Absent]
    /\ aggregate = NoAggregate
    /\ previous = NoAggregate
    /\ aggregations = 0
    /\ config \in Configs
    /\ result = NoResult
    /\ solaceAvailable = TRUE
    /\ InitRuntime

NextDemo ==
    \/ \E a \in Agents : Start(a, "none")
    \/ \E a \in Agents : Stop(a)
    \/ \E query \in Queries, jb \in Jitter : DemoRequest("bot-detector", query, jb, 0, 0)
    \/ \E query \in Queries, jr \in Jitter : DemoRequest("score-aggregator", query, 0, jr, 0)
    \/ \E query \in Queries, jr \in Jitter, js \in ScoreJitter :
          DemoRequest("trend-analyzer", query, 0, jr, js)
    \/ \E query \in Queries : OwnRequest("score-aggregator", query, 0, 0)
    \/ \E agent_type \in AgentTypes \ {"score-aggregator"}, query \in Queries,
          raw \in RawScores, rawConfidence \in RawConfidences :
          OwnRequest(agent_type, query, raw, rawConfidence)

SpecDemo == InitDemo /\ [][NextDemo]_vars

-----------------------------------------------------------------------------
(* The bus and the message handlers as a state machine: the environment     *)
(* subscribes handlers (generic callables and the agent's                   *)
(* _handle_fallback_message) and publishes requests and undecodable text;   *)
(* the agent is as constructed without the broker library.                  *)

Init ==
    /\ agentResults = [a \in SignalAgents |-> Absent]
    /\ aggregate = NoAggregate
    /\ previous = NoAggregate
    /\ aggregations = 0
    /\ config = DefaultConfig
    /\ result = NoResult
    /\ solaceAvailable = FALSE
    /\ InitRuntime

Next ==
    \/ \E topic \in Topics, h \in Handlers : EnvSubscribe(topic, h)
    \/ \E c \in Callers, topic \in Topics, kind \in {"request", "garbage"} :
          EnvPublish(c, topic, kind)
    \/ \E t \in AllThreads : PublishAcquire(t)
    \/ \E t \in AllThreads : PublishDispatch(t)
    \/ \E t \in AllThreads : PublishRelease(t)
    \/ \E t \in HandlerThreads, o \in {"return", "raise", "hang"} : GenericRun(t, o)
    \/ \E t \in HandlerThreads, topic \in Topics : GenericPublish(t, topic)
    \/ \E t \in HandlerThreads, topic \in Topics, h \in Handlers : GenericSubscribe(t, topic, h)
    \/ \E t \in HandlerThreads : HandlerDecode(t)
    \/ \E t \in HandlerThreads, o \in {"return", "raise", "hang"} : HandlerCompute(t, o)
    \/ \E t \in HandlerThreads, brokerOk \in BOOLEAN : HandlerPublish(t, brokerOk)

Spec == Init /\ [][Next]_vars

-----------------------------------------------------------------------------
(* The agent's life as a state machine: start() and stop() in any order,    *)
(* with any broker failure, while requests are published to the agent's     *)
(* request topic and handled.                                               *)

InitLife ==
    /\ agentResults = [a \in SignalAgents |-> Absent]
    /\ aggregate = NoAggregate
    /\ previous = NoAggregate
    /\ aggregations = 0
    /\ config = DefaultConfig
    /\ result = NoResult
    /\ solaceAvailable \in BOOLEAN
    /\ InitRuntime

NextLife ==
    \/ \E a \in Agents, failAt \in ConnectFailures : Start(a, failAt)
    \/ \E a \in Agents : Stop(a)
    \/ \E a \in Agents : EnvSubscribe(TOPICS.BOT_DETECTOR_REQUEST, a)
    \/ EnvPublish(1, TOPICS.BOT_DETECTOR_REQUEST, "request")
    \/ \E t \in AllThreads : PublishAcquire(t)
    \/ \E t \in AllThreads : PublishDispatch(t)
    \/ \E t \in AllThreads : PublishRelease(t)
    \/ \E t \in HandlerThreads : HandlerDecode(t)
    \/ \E t \in HandlerThreads, o \in {"return", "raise"} : HandlerCompute(t, o)
    \/ \E t \in HandlerThreads, brokerOk \in BOOLEAN : HandlerPublish(t, brokerOk)

SpecLife == InitLife /\ [][NextLife]_vars

-----------------------------------------------------------------------------
(* Claims about the aggregator, checked under SpecAgg *)

AllScoredInRange ==
    \A a \in SignalAgents :
        /\ agentResults[a].kind = "result"
        /\ agentResults[a].hasScore
        /\ InRange(agentResults[a].score)

\* C1: for every quadruple (b,t,r,p) of scores in [0,100] handed to the
\* aggregator, the reality score is 0.4b + 0.3t + 0.2r + 0.1p and lies in
\* [0,100].
C1_RealityScoreFormula ==
    (aggregate.done /\ AllScoredInRange) =>
        LET b == agentResults["bot-detector"].score
            t == agentResults["trend-analyzer"].score
            r == agentResults["review-validator"].score
            p == agentResults["paid-promotion"].score
        IN  /\ 10 * aggregate.reality_score = (4 * b + 3 * t + 2 * r + p) * Hundredths
            /\ 0 <= aggregate.reality_score
            /\ aggregate.reality_score <= 100 * Unit

\* four different in-range scores have been aggregated
C1_Witness ==
    /\ aggregate.done
    /\ AllScoredInRange
    /\ agentResults["bot-detector"].score = 9000
    /\ agentResults["trend-analyzer"].score = 0
    /\ agentResults["review-validator"].score = 10000
    /\ agentResults["paid-promotion"].score = 3400
    /\ aggregate.reality_score = 59 * Unit + 4000

\* C2: the level is GREEN iff score >= 67, YELLOW iff 34 <= score < 67, RED
\* iff score < 34; 67 is GREEN, 66.99 YELLOW, 34 YELLOW, 33.99 RED; every
\* score gets exactly one level.
C2_ZoneBoundaries ==
    aggregate.done =>
        LET s == aggregate.reality_score
            l == aggregate.manipulation_level
        IN  /\ l \in {"GREEN", "YELLOW", "RED"}
            /\ (l = "GREEN") <=> (s >= 670000)
            /\ (l = "YELLOW") <=> (340000 <= s /\ s < 670000)
            /\ (l = "RED") <=> (s < 340000)
            /\ (s = 670000) => (l = "GREEN")
            /\ (s = 669900) => (l = "YELLOW")
            /\ (s = 340000) => (l = "YELLOW")
            /\ (s = 339900) => (l = "RED")

\* a reality score of exactly 67.0 has been classified
C2_Witness ==
    /\ aggregate.done
    /\ aggregate.reality_score = 670000
    /\ aggregate.manipulation_level = "GREEN"

\* the other three boundary scores are classified too
C2_Reaches6699 == aggregate.done /\ aggregate.reality_score = 669900
C2_Reaches3400 == aggregate.done /\ aggregate.reality_score = 340000
C2_Reaches3399 == aggregate.done /\ aggregate.reality_score = 339900

AbsentAgents == {a \in SignalAgents : agentResults[a].kind = "absent"}

Substituted == [a \in SignalAgents |->
                   IF a \in AbsentAgents THEN Scored(5000) ELSE agentResults[a]]

OnlyBot90 ==
    agentResults = [a \in SignalAgents |->
                       IF a = "bot-detector" THEN Scored(9000) ELSE Absent]

\* C3: every agent absent from agentResults counts with the neutral score
\* 50.0, so the sum is over four terms: the result is the one obtained with an
\* explicit score of 50.0 in place of each absent agent; with only
\* bot-detector = 90 present the reality score is 66 and the level YELLOW.
C3_MissingAgentNeutral ==
    aggregate.done =>
        /\ aggregate.agent_scores.bot_detector =
               (IF "bot-detector" \in AbsentAgents THEN 5000
                ELSE aggregate.agent_scores.bot_detector)
        /\ aggregate.agent_scores.trend_analyzer =
               (IF "trend-analyzer" \in AbsentAgents THEN 5000
                ELSE aggregate.agent_scores.trend_analyzer)
        /\ aggregate.agent_scores.review_validator =
               (IF "review-validator" \in AbsentAgents THEN 5000
                ELSE aggregate.agent_scores.review_validator)
        /\ aggregate.agent_scores.paid_promotion =
               (IF "paid-promotion" \in AbsentAgents THEN 5000
                ELSE aggregate.agent_scores.paid_promotion)
        /\ aggregate.reality_score = AggregateAgentResults(Substituted).reality_score
        /\ aggregate.manipulation_level =
               AggregateAgentResults(Substituted).manipulation_level
        /\ OnlyBot90 =>
               /\ aggregate.reality_score = 66 * Unit
               /\ aggregate.manipulation_level = "YELLOW"

\* the input with only bot-detector = 90 has been aggregated
C3_Witness == aggregate.done /\ OnlyBot90 /\ aggregate.reality_score = 660000

-----------------------------------------------------------------------------
(* Claims about the message handler, checked under Spec and SpecLife *)

AgentThreads == {t \in HandlerThreads : threads[t].handler \in Agents}

\* the responses thread t has had a transport accept on its agent's response topic
PublishedBy(t) ==
    {p \in published :
        /\ p.pub = threads[t].outPub
        /\ p.by = threads[t].handler
        /\ p.topic = TOPICS.BOT_DETECTOR_RESPONSE
        /\ p.payload.kind = "response"}

\* C4: when process_analysis_request raises while a request is handled, a
\* response with status ERROR, score 50.0 and confidence 0.0 is published to
\* the agent's response topic.
C4_ErrorResponsePublished ==
    \A t \in AgentThreads :
        (threads[t].pc = "done" /\ threads[t].outcome = "raise") =>
            \E p \in PublishedBy(t) :
                /\ p.payload.status = "ERROR"
                /\ p.payload.score = 5000
                /\ p.payload.confidence = 0

\* C5: every response an agent publishes, COMPLETE or ERROR, carries the
\* analysisId of the request that caused it: the response the handler hands to
\* _publish_response has the request's analysisId, and so has what a transport
\* accepted.
C5_ResponseCarriesAnalysisId ==
    \A t \in AgentThreads :
        /\ threads[t].out.kind = "response" =>
              /\ threads[t].out.hasId
              /\ threads[t].out.id = threads[t].payload.id
        /\ \A p \in PublishedBy(t) :
              p.payload.hasId /\ p.payload.id = threads[t].payload.id

\* C6: every decodable request delivered to the agent ends with a response
\* (COMPLETE or ERROR) published on the agent's response topic, whether the
\* computation returned or raised; stated of the handler that has finished.
C6_RequestGetsResponse ==
    \A t \in AgentThreads :
        (threads[t].pc = "done" /\ threads[t].payload.kind = "request") =>
            PublishedBy(t) # {}

-----------------------------------------------------------------------------
(* Claims about the fallback bus, checked under Spec *)

\* the publish() calls on the bus that have returned
Returned ==
    {p \in published :
        /\ p.via = "bus"
        /\ \A t \in AllThreads :
              threads[t].outPub = p.pub => threads[t].pc \notin {"bus_acquire", "bus_dispatch"}}

\* the threads started for the handler at place i of publish() call p
Invocations(p, i) ==
    {t \in HandlerThreads :
        threads[t].pc # "unused" /\ threads[t].pub = p.pub /\ threads[t].slot = i}

\* C7: publishing one message to a topic with N subscribed handlers invokes
\* each of the N handlers exactly once with that message, even if one of them
\* raises: once publish() has returned, each place of the topic's list has
\* exactly one thread, running that handler on that message, and no place ever
\* has two.
C7_EachHandlerOnce ==
    \A p \in published :
        p.via = "bus" =>
            /\ \A i \in 1 .. Len(p.handlers) :
                  /\ Cardinality(Invocations(p, i)) <= 1
                  /\ p \in Returned => Cardinality(Invocations(p, i)) = 1
                  /\ \A t \in Invocations(p, i) :
                        /\ threads[t].handler = p.handlers[i]
                        /\ threads[t].payload = p.payload
            /\ \A t \in HandlerThreads :
                  (threads[t].pc # "unused" /\ threads[t].pub = p.pub) =>
                      threads[t].slot \in 1 .. Len(p.handlers)

\* a message went to two handlers, one raised, and the other was invoked too
C7_Witness ==
    \E p \in Returned :
        /\ Len(p.handlers) = 2
        /\ \E t \in Invocations(p, 1) : threads[t].pc = "raised"
        /\ \E t \in Invocations(p, 2) : threads[t].pc = "done"

\* the next step of a thread that is not hung is enabled
CanStep(t) ==
    CASE threads[t].pc = "bus_dispatch" -> ENABLED (PublishDispatch(t) \/ PublishRelease(t))
      [] threads[t].pc = "run" -> ENABLED GenericRun(t, "return")
      [] threads[t].pc = "decode" -> ENABLED HandlerDecode(t)
      [] threads[t].pc = "compute" -> ENABLED HandlerCompute(t, "return")
      [] threads[t].pc \in {"publish", "publish_err"} -> ENABLED HandlerPublish(t, TRUE)
      [] OTHER -> TRUE

\* C8: a handler (or an agent computation) that never returns blocks neither
\* the publisher, whose publish() returns after dispatch, nor the other
\* handlers of the message, nor other requests: the lock is held only inside
\* the dispatch loop, never by a handler, and every thread other than a hung
\* one can take its next step whatever the other threads are doing.
C8_HangBlocksNobody ==
    /\ lock # 0 => threads[lock].pc = "bus_dispatch"
    /\ \A t \in AllThreads : CanStep(t)

\* a handler hangs; its publisher has returned, the other handler of the same
\* message has finished, and a later request has been handled to the end
C8_Witness ==
    \E p \in Returned, q \in Returned :
        /\ p.pub < q.pub
        /\ \E t \in Invocations(p, 1) : threads[t].pc = "hung"
        /\ \E t \in Invocations(p, 2) : threads[t].pc = "done"
        /\ \E t \in Invocations(q, 2) : threads[t].pc = "done" /\ threads[t].handler \in Agents

-----------------------------------------------------------------------------
(* Claims about start() and the transport mode, checked under SpecLife *)

\* a start() call of agent a in which the broker connection was tried and failed
FailedConnectStart(a) ==
    /\ starts'[a] = starts[a] + 1
    /\ connectAttempts'[a] = connectAttempts[a] + 1
    /\ use_fallback'[a]

Subscribed(subs, topic, h) == \E i \in 1 .. Len(subs[topic]) : subs[topic][i] = h

\* C9: if the broker connection attempt fails during start(), start() raises
\* nothing and ends with the agent running, subscribed to its request topic on
\* the fallback bus, with use_fallback true.
C9_StartFallsBack ==
    [][\A a \in Agents :
          FailedConnectStart(a) =>
              /\ lastStart'[a] = "returned"
              /\ is_running'[a]
              /\ use_fallback'[a]
              /\ Subscribed(subscribers', TOPICS.BOT_DETECTOR_REQUEST, a)]_vars

\* C10: once an agent has fallen back (use_fallback true), no start(), message
\* handling, publishing or stop() attempts a broker connection again or puts it
\* back in broker mode.
C10_FallbackIsPermanent ==
    [][\A a \in Agents :
          use_fallback[a] =>
              /\ use_fallback'[a]
              /\ connectAttempts'[a] = connectAttempts[a]]_vars

\* the agent fell back in its first start(), was stopped, handled a message and
\* was started again without another connection attempt
C10_Witness ==
    \E a \in Agents :
        /\ solaceAvailable
        /\ use_fallback[a]
        /\ starts[a] = 2
        /\ connectAttempts[a] = 1
        /\ \E t \in AgentThreads : threads[t].pc = "done" /\ threads[t].handler = a

-----------------------------------------------------------------------------
(* Claims about the transport mode and stop(), checked under SpecLife *)

\* the response thread t hands to _publish_response in this step is taken by
\* the broker, or goes to publish() of the fallback bus
Delivered(t) ==
    \/ \E p \in published' \ published :
          /\ p.via = "broker"
          /\ p.by = threads[t].handler
          /\ p.topic = TOPICS.BOT_DETECTOR_RESPONSE
          /\ p.payload = threads[t].out
    \/ /\ threads'[t].pc = "bus_acquire"
       /\ threads'[t].outTopic = TOPICS.BOT_DETECTOR_RESPONSE
       /\ threads'[t].out = threads[t].out

\* C11: in broker mode (use_fallback false) a response the broker does not
\* take is published on the fallback bus instead, and use_fallback is left
\* unchanged: every _publish_response call made in broker mode ends with the
\* response taken by the broker or handed to the bus, in broker mode still.
C11_BrokerFailureDegradesOnePublish ==
    [][\A t \in HandlerThreads :
          (/\ threads[t].handler \in Agents
           /\ threads[t].pc \in {"publish", "publish_err"}
           /\ threads'[t] # threads[t]
           /\ ~use_fallback[threads[t].handler]) =>
              /\ ~use_fallback'[threads[t].handler]
              /\ Delivered(t)]_vars

\* C12: the lifecycle only moves forward and STOPPED is terminal: an agent
\* stops running only by stop(), and once stop() has returned no operation
\* takes the agent back to connecting (no broker connection is attempted) or
\* to running.
C12_StoppedIsTerminal ==
    [][\A a \in Agents :
          /\ (is_running[a] /\ ~is_running'[a]) => stopLog'[a].stopped
          /\ stopLog[a].stopped =>
                /\ ~is_running'[a]
                /\ connectAttempts'[a] = connectAttempts[a]]_vars

\* C13: a request published to the agent's request topic after stop() has
\* returned is not handled by the stopped agent: no thread runs its handler on
\* a message published after the stop, and its broker receiver is not
\* subscribed.
C13_StopUnsubscribes ==
    \A a \in Agents :
        stopLog[a].stopped =>
            /\ ~brokerSubscribed[a]
            /\ \A t \in HandlerThreads :
                  (threads[t].pc # "unused" /\ threads[t].handler = a) =>
                      threads[t].pub <= stopLog[a].pub

\* C14: a request whose handler had started when stop() was called is not
\* cancelled: the handler can take its next step, and when it has finished its
\* response has been published.
C14_InFlightCompletes ==
    \A a \in Agents :
        \A t \in stopLog[a].inFlight :
            /\ CanStep(t)
            /\ (threads[t].pc = "done" /\ threads[t].payload.kind = "request") =>
                  PublishedBy(t) # {}

-----------------------------------------------------------------------------
(* Claims about the handler's error handling, checked under Spec *)

C16_NoExceptionEscapes ==
    \A t \in AgentThreads : threads[t].pc # "raised"

\* the computation raised and publishing the error response failed as well;
\* both errors were counted and the handler returned
C16_Witness ==
    \E t \in AgentThreads :
        /\ threads[t].outcome = "raise"
        /\ threads[t].pc = "done"
        /\ PublishedBy(t) = {}
        /\ error_count[threads[t].handler] = 2

-----------------------------------------------------------------------------
(* Claims about the responses' numbers, checked under SpecDemo and SpecConf *)

\* C17: every response an agent builds for publication has score and
\* confidence in [0,100], for every query, demo pair and jitter outcome.
C17_ResponseInRange ==
    result.done =>
        /\ InRange(result.response.score)
        /\ InRange(result.response.confidence)

\* C18: for every aggregator input with confidences and scores in [0,100]
\* (any subset of agents present), the overall confidence lies in [60,98].
C18_ConfidenceBounds ==
    aggregate.done =>
        /\ 60 * ConfUnit <= aggregate.confidence
        /\ aggregate.confidence <= 98 * ConfUnit

\* four agents report confidence 0 on scattered scores: the floor of 60 acts
C18_Witness ==
    /\ aggregate.done
    /\ Confident(agentResults) = SignalAgents
    /\ \A a \in SignalAgents : agentResults[a].confidence = 0
    /\ agentResults["bot-detector"].score = 10000
    /\ agentResults["trend-analyzer"].score = 0
    /\ aggregate.confidence = 60 * ConfUnit

\* one agent reports confidence 60 and the scores are 50, 50, 50 and 40: the
\* variance is 18.75, the bonus 8.125 and the confidence 68.125
C18_ReachesInside ==
    /\ aggregate.done
    /\ agentResults["bot-detector"] = WithConfidence(Scored(5000), 6000)
    /\ agentResults["trend-analyzer"] = Scored(5000)
    /\ agentResults["review-validator"] = Scored(5000)
    /\ agentResults["paid-promotion"] = Scored(4000)
    /\ aggregate.confidence = 68 * ConfUnit + ConfUnit \div 8

\* two agents report 60 and 100 on scores 100 and 0: 80 + 0 + 2 = 82
C18_ReachesTwoAgents ==
    /\ aggregate.done
    /\ agentResults["bot-detector"] = WithConfidence(Scored(10000), 6000)
    /\ agentResults["trend-analyzer"] = WithConfidence(Scored(0), 10000)
    /\ agentResults["review-validator"] = Absent
    /\ agentResults["paid-promotion"] = Absent
    /\ aggregate.confidence = 82 * ConfUnit

\* C19: for every request whose query matches "stanley cup", the
\* bot-detector's score is within 2 of 100 - STANLEY_CUP_BOT_PERCENTAGE, on
\* every invocation, whatever requests, stops and restarts came before.
C19_StanleyCupBand ==
    (/\ result.done
     /\ result.agent_type = "bot-detector"
     /\ DemoOf(result.query) = "stanley cup") =>
        LET expected == (100 - config.STANLEY_CUP_BOT_PERCENTAGE) * Hundredths
        IN  /\ expected - 2 * Hundredths <= result.response.score
            /\ result.response.score <= expected + 2 * Hundredths

\* the agent was started, stopped and started again, and a Stanley Cup request
\* then got the score at the upper end of the band
C19_Witness ==
    /\ result.done
    /\ result.agent_type = "bot-detector"
    /\ DemoOf(result.query) = "stanley cup"
    /\ config.STANLEY_CUP_BOT_PERCENTAGE = STANLEY_CUP_BOT_PERCENTAGE
    /\ result.response.score = 40 * Hundredths
    /\ \E a \in Agents : stopLog[a].stopped /\ starts[a] = 2

-----------------------------------------------------------------------------
(* Claims about the topics, checked under SpecLife *)

\* the agent types: the keys of the topic_map literals
AllAgentTypes ==
    {"bot-detector", "trend-analyzer", "review-validator", "paid-promotion",
     "score-aggregator"}

\* C21: each agent type X subscribes to exactly signalzero/agent/X/request and
\* publishes its responses to exactly signalzero/agent/X/response, and resolving
\* either topic never fails: no topic resolution raises, every start() call
\* returns with the agent subscribed on its request topic (on the bus, its
\* handler appended to that topic's list and no other; or at the broker), and
\* every response handed to _publish_response goes out on the response topic.
C21_TopicsResolve ==
    [][/\ \A x \in AllAgentTypes :
             ~GetRequestTopic(x).raised /\ ~GetResponseTopic(x).raised
       /\ \A a \in Agents :
             starts'[a] = starts[a] + 1 =>
                 /\ lastStart'[a] = "returned"
                 /\ IF use_fallback'[a]
                    THEN subscribers' =
                            [subscribers EXCEPT ![TOPICS.BOT_DETECTOR_REQUEST] = Append(@, a)]
                    ELSE brokerSubscribed'[a] /\ subscribers' = subscribers
       /\ \A t \in HandlerThreads :
             (/\ threads[t].handler \in Agents
              /\ threads[t].pc \in {"publish", "publish_err"}
              /\ threads'[t] # threads[t]) => Delivered(t)]_vars

-----------------------------------------------------------------------------
(* Claims about missing and failed agents, checked under SpecMissing *)

\* the aggregate of agentResults with agent a left out
WithoutAgent(a) == AggregateAgentResults([agentResults EXCEPT ![a] = Absent])

\* C22: a failed agent is neutral for the aggregate: with one agent's entry
\* being the error response the runtime builds on failure, the reality score
\* and the manipulation level are the ones obtained with that agent left out
\* of agentResults.
C22_FailedAgentNeutral ==
    aggregate.done =>
        \A a \in SignalAgents :
            agentResults[a] = ErrorEntry =>
                /\ WithoutAgent(a).done
                /\ aggregate.reality_score = WithoutAgent(a).reality_score
                /\ aggregate.manipulation_level = WithoutAgent(a).manipulation_level

\* the bot-detector failed, the trend-analyzer reported 100 and the other two
\* are missing: 20 + 30 + 10 + 5 = 65
C22_Witness ==
    /\ aggregate.done
    /\ agentResults["bot-detector"] = ErrorEntry
    /\ agentResults["bot-detector"].score = 5000
    /\ agentResults["trend-analyzer"] = Complete(10000, 9000)
    /\ agentResults["review-validator"] = Absent
    /\ agentResults["paid-promotion"] = EmptyDict
    /\ aggregate.reality_score = 65 * Unit
    /\ aggregate.manipulation_level = "YELLOW"

\* C23: the aggregator never raises because of a missing agent: whatever
\* subset of the four agents is present, the other entries being absent, empty
\* or error responses without evidence, aggregation completes and returns a
\* reality score, a level and a confidence.
C23_MissingAgentNeverRaises ==
    (/\ aggregations >= 1
     /\ \A a \in SignalAgents : agentResults[a].kind # "null") =>
        /\ aggregate.done
        /\ ~aggregate.raised
        /\ 0 <= aggregate.reality_score /\ aggregate.reality_score <= 100 * Unit
        /\ aggregate.manipulation_level \in {"GREEN", "YELLOW", "RED"}
        /\ 60 * ConfUnit <= aggregate.confidence /\ aggregate.confidence <= 98 * ConfUnit

\* one agent is present, one failed, one entry is empty and one is absent
C23_Witness ==
    /\ aggregate.done
    /\ agentResults["bot-detector"] = Complete(3400, 9000)
    /\ agentResults["trend-analyzer"] = ErrorEntry
    /\ agentResults["review-validator"] = EmptyDict
    /\ agentResults["paid-promotion"] = Absent
    /\ aggregate.data_sources = {"bot-detector"}

\* no agent is present at all: 50, YELLOW and the default confidence
C23_ReachesNone ==
    /\ aggregate.done
    /\ \A a \in SignalAgents : agentResults[a] = Absent
    /\ aggregate.reality_score = 50 * Unit
    /\ aggregate.manipulation_level = "YELLOW"
    /\ aggregate.confidence = 70 * ConfUnit

\* an entry that is None is outside the claim's cases: the aggregation raises
C23_ReachesNullRaises ==
    /\ aggregations >= 1
    /\ aggregate.raised
    /\ \E a \in SignalAgents : agentResults[a].kind = "null"

-----------------------------------------------------------------------------
(* Claims about the responses of one request, checked under SpecLife *)

\* the request messages delivered on the agent's request topic
DeliveredRequests ==
    {p \in published :
        /\ p.via = "bus"
        /\ p.topic = TOPICS.BOT_DETECTOR_REQUEST
        /\ p.payload.kind = "request"}

\* the responses agent a has published for request message p
ResponsesTo(p, a) ==
    UNION {PublishedBy(t) : t \in {u \in AgentThreads :
                                       threads[u].handler = a /\ threads[u].pub = p.pub}}

-----------------------------------------------------------------------------
(* Claims about the counters and the response's fields, checked under Spec *)

\* the handler threads of agent a that have handled their message to the end
Finished(a) ==
    {t \in AgentThreads : threads[t].handler = a /\ threads[t].pc = "done"}

\* C25: handling one inbound message changes the counters by exactly one in
\* total: processing_count goes up by one (error_count unchanged) when a
\* COMPLETE response is published, error_count goes up by exactly one
\* (processing_count unchanged) on a decode failure or a computation failure.
\* Stated of the agent with no message in flight: the two counters add up to
\* the number of messages handled, error_count is the number of messages whose
\* decoding or computation failed, and processing_count the number of messages
\* whose COMPLETE response was published.
C25_OneCountPerMessage ==
    \A a \in Agents :
        InFlight(a) = {} =>
            /\ processing_count[a] + error_count[a] = Cardinality(Finished(a))
            /\ error_count[a] =
                  Cardinality({t \in Finished(a) :
                                  threads[t].outcome \in {"decode_error", "raise"}})
            /\ processing_count[a] =
                  Cardinality({t \in Finished(a) :
                                  \E p \in PublishedBy(t) : p.payload.status = "COMPLETE"})

\* the fields of the response payload
ResponseFields ==
    {"analysisId", "score", "confidence", "evidence", "data_sources", "status",
     "agent_type", "processing_time_ms", "timestamp", "agent_version"}

\* C26: every published response, ERROR responses included, contains all the
\* fields of the response payload: the response the handler hands to
\* _publish_response has the ten fields, and so has what a transport accepted.
C26_ResponseHasAllFields ==
    \A t \in AgentThreads :
        /\ threads[t].out.kind = "response" => ResponseFields \subseteq threads[t].out.keys
        /\ \A p \in PublishedBy(t) : ResponseFields \subseteq p.payload.keys

-----------------------------------------------------------------------------
(* Claims about the demo short-circuit, checked under SpecDemo *)

\* the demo keys in the order they are checked, each with its phrases
DemoKeys ==
    <<{<<"stanley", "cup">>}, {<<"$buzz">>, <<"buzz", "stock">>}, {<<"prime", "energy">>}>>

\* the keys a query contains, case-insensitively
KeysIn(query) ==
    {i \in DOMAIN DemoKeys : \E phrase \in DemoKeys[i] : Contains(Lower(query), phrase)}

\* the pre-defined pair of demo key i
PairOfKey(i) ==
    CASE i = 1 -> <<config.STANLEY_CUP_BOT_PERCENTAGE, config.STANLEY_CUP_REALITY_SCORE>>
      [] i = 2 -> <<config.BUZZ_STOCK_BOT_PERCENTAGE, config.BUZZ_STOCK_REALITY_SCORE>>
      [] OTHER -> <<config.PRIME_ENERGY_BOT_PERCENTAGE, config.PRIME_ENERGY_REALITY_SCORE>>

\* C27: the demo short-circuit is decided before any analysis: a query that
\* contains a demo key (case-insensitively; "stanley cup" first, then "$buzz"
\* or "buzz stock", then "prime energy") gets the pre-defined pair of the first
\* key it matches and the agent's own analysis is not invoked; a query that
\* contains none of the keys reaches the agent's own analysis.
C27_DemoShortCircuit ==
    result.done =>
        IF KeysIn(result.query) = {}
        THEN result.analysed
        ELSE LET first == CHOOSE i \in KeysIn(result.query) :
                              \A j \in KeysIn(result.query) : i <= j
             IN  /\ ~result.analysed
                 /\ result.pair = PairOfKey(first)
                 /\ result.response.status = "COMPLETE"

\* a query with "prime energy" ahead of "Stanley Cup" got the Stanley Cup pair
C27_Witness ==
    /\ result.done
    /\ result.query = <<"prime", "energy", "stanley", "cup">>
    /\ result.agent_type = "bot-detector"
    /\ ~result.analysed
    /\ result.pair = <<STANLEY_CUP_BOT_PERCENTAGE, STANLEY_CUP_REALITY_SCORE>>
    /\ result.response.score = 38 * Hundredths

\* a query without a key was analysed by the agent itself
C27_ReachesOwnAnalysis ==
    /\ result.done
    /\ result.query = <<"garden", "hose">>
    /\ result.analysed

\* "$BUZZ" after "prime energy" got the buzz stock pair
C27_ReachesBuzz ==
    /\ result.done
    /\ result.query = <<"prime", "energy", "$BUZZ">>
    /\ result.pair = <<BUZZ_STOCK_BOT_PERCENTAGE, BUZZ_STOCK_REALITY_SCORE>>

\* "Prime energy" alone got the prime energy pair
C27_ReachesPrime ==
    /\ result.done
    /\ result.query = <<"Prime", "energy">>
    /\ result.pair = <<PRIME_ENERGY_BOT_PERCENTAGE, PRIME_ENERGY_REALITY_SCORE>>

-----------------------------------------------------------------------------
(* Claims about the parts of the confidence, checked under SpecConf *)

\* the extracted scores with the score of agent a replaced by s
ScoresWith(a, s) == ExtractAgentScores([agentResults EXCEPT ![a] = Scored(s)])

\* C28: before clamping, the aggregator's confidence is the mean of the
\* confidences of the agents that responded, plus an agreement bonus that is
\* never negative and never increases when the variance of the agent scores
\* increases, plus a fixed bonus (2 points) for each responding agent beyond
\* the first; with no responding agent it is a fixed default inside [60,98].
\* The sum is compared with the bounds term by term, a confidence of 100 with
\* both bonuses being beyond the integers of the checker.
C28_ConfidenceParts ==
    aggregate.done =>
        LET agents == Confident(agentResults)
            n == Cardinality(agents)
            scores == aggregate.agent_scores
            agreement == ConsistencyBonus(scores)
            count == AgentCountBonus(n)
        IN  IF n = 0
            THEN /\ aggregate.confidence = 70 * ConfUnit
                 /\ 60 * ConfUnit <= aggregate.confidence
                 /\ aggregate.confidence <= 98 * ConfUnit
            ELSE LET mean == (SumConfidences(agentResults, agents)
                                 * ((ConfUnit \div Hundredths) \div n))
                 IN  /\ agreement >= 0
                     /\ \A a \in SignalAgents, s \in ConfScores :
                           CalculateVariance(ScoresWith(a, s)) >= CalculateVariance(scores)
                               => ConsistencyBonus(ScoresWith(a, s)) <= agreement
                     /\ count = (n - 1) * 2 * ConfUnit
                     /\ aggregate.confidence =
                           (IF mean >= 98 * ConfUnit - agreement - count
                            THEN 98 * ConfUnit
                            ELSE IF mean + agreement + count <= 60 * ConfUnit
                            THEN 60 * ConfUnit
                            ELSE mean + agreement + count)

\* three agents respond with confidences 60, 60 and 100 and the four scores
\* agree: 73 1/3 + 10 + 4 = 87 1/3
C28_Witness ==
    /\ aggregate.done
    /\ agentResults["bot-detector"] = WithConfidence(Scored(5000), 6000)
    /\ agentResults["trend-analyzer"] = WithConfidence(Scored(5000), 6000)
    /\ agentResults["review-validator"] = WithConfidence(Scored(5000), 10000)
    /\ agentResults["paid-promotion"] = Absent
    /\ aggregate.confidence = 87 * ConfUnit + ConfUnit \div 3

\* no agent responds with a confidence: the default
C28_ReachesDefault ==
    /\ aggregate.done
    /\ Confident(agentResults) = {}
    /\ agentResults["bot-detector"] = Scored(10000)
    /\ aggregate.confidence = 70 * ConfUnit

-----------------------------------------------------------------------------
(* Claims about the bus's lock and registry, checked under Spec *)

\* the places of a thread that is executing a handler's code, or has left it
InHandlerCode ==
    {"run", "decode", "compute", "publish", "publish_err", "hung", "raised", "done"}

C29_ReachesContention ==
    \E t \in HandlerThreads :
        /\ threads[t].outcome = "publish"
        /\ threads[t].pc = "bus_acquire"
        /\ lock # 0

\* a handler called subscribe() from its thread and returned
C29_ReachesSubscribe ==
    \E t \in HandlerThreads : threads[t].outcome = "subscribe" /\ threads[t].pc = "done"

\* a step of a publish() call: the call is made, or goes on inside the bus
PublishStep ==
    \/ pubCount' # pubCount
    \/ published' # published
    \/ \E t \in AllThreads :
          /\ threads[t].pc \in {"bus_acquire", "bus_dispatch"}
          /\ threads'[t] # threads[t]

\* C30: in the fallback bus publish() leaves the subscriber registry
\* unchanged, subscribe(topic, h) appends h to the end of that topic's handler
\* list and leaves every other topic's list unchanged, and no operation other
\* than an agent's stop() ever removes a registered handler: every step that is
\* not a stop() leaves the registry as it is or appends one handler to one
\* list, and a step of publish() leaves it as it is.
C30_RegistryFrame ==
    [][\/ \E a \in Agents : Stop(a)
       \/ /\ PublishStep => subscribers' = subscribers
          /\ \/ subscribers' = subscribers
             \/ \E topic \in Topics, h \in Handlers :
                   subscribers' = [subscribers EXCEPT ![topic] = Append(@, h)]]_vars

\* two handlers were subscribed to the request topic, none to the response
\* topic, and a message published to the request topic went to both, in the
\* order of the list
C30_Witness ==
    /\ subscribers[TOPICS.BOT_DETECTOR_REQUEST] = <<"h1", "bot-detector">>
    /\ subscribers[TOPICS.BOT_DETECTOR_RESPONSE] = <<>>
    /\ \E p \in Returned :
          /\ p.topic = TOPICS.BOT_DETECTOR_REQUEST
          /\ p.handlers = <<"h1", "bot-detector">>
          /\ \E t \in Invocations(p, 2) : threads[t].handler = "bot-detector"

-----------------------------------------------------------------------------
(* The broker client as a state machine: any sequence of calls on one       *)
(* SolaceClient, with or without the broker library, the broker failing any *)
(* operation.                                                               *)

NextClient ==
    \/ \E failAt \in ClientConnectFailures, cleanupFail \in CleanupFailures :
          ClientConnect(failAt, cleanupFail)
    \/ \E cleanupFail \in CleanupFailures : ClientDisconnect(cleanupFail)
    \/ \E failAt \in ClientConnectFailures, cleanupFail \in CleanupFailures,
          pubFails \in BOOLEAN : ClientPublish(failAt, cleanupFail, pubFails)
    \/ \E topic \in Topics, h \in GenericHandlers, failAt \in ClientConnectFailures,
          cleanupFail \in CleanupFailures, subFails \in BOOLEAN :
          ClientSubscribe(topic, h, failAt, cleanupFail, subFails)
    \/ \E topic \in Topics, unsubFails \in BOOLEAN : ClientUnsubscribe(topic, unsubFails)

SpecClient == InitLife /\ [][NextClient]_vars

-----------------------------------------------------------------------------
(* Claims about the broker client, checked under SpecClient *)

\* C31: no call on the broker client raises; connect, publish_message and
\* subscribe_to_topic return False when a broker operation fails during the
\* call; and a publish or subscribe issued while disconnected whose connection
\* attempt fails has attempted the connection, returns False, sends nothing
\* and registers nothing.
C31_ClientNeverRaises ==
    [][/\ clientCall'.ret # "raised"
       /\ (clientCall'.op \in {"connect", "publish", "subscribe"} /\ clientCall'.failed)
             => clientCall'.ret = "False"
       /\ (/\ clientCall'.op \in {"publish", "subscribe"}
           /\ ~client.is_connected
           /\ ~client'.is_connected)
             => /\ clientCall'.ret = "False"
                /\ client'.connection_attempts = client.connection_attempts + 1
                /\ client'.messages_sent = client.messages_sent
                /\ client'.subscriptions = client.subscriptions
                /\ client'.message_handlers = client.message_handlers]_vars

\* a publish issued while disconnected has failed to connect and returned False
C31_Witness ==
    /\ solaceAvailable
    /\ clientCall = Call("publish", TRUE, "False")
    /\ ~client.is_connected
    /\ client.connection_attempts >= 1

\* a publish on a connected client has failed at the broker and returned False
C31_ReachesPublishFailure ==
    /\ clientCall = Call("publish", TRUE, "False")
    /\ client.is_connected

\* a subscription on a connected client has failed and returned False
C31_ReachesSubscribeFailure ==
    /\ clientCall = Call("subscribe", TRUE, "False")
    /\ client.is_connected
    /\ client.subscriptions = {}

-----------------------------------------------------------------------------
(* The client's connection as a state machine: connect() and disconnect()   *)
(* in any order, the broker failing any operation.                          *)

NextConnection ==
    \/ \E failAt \in ClientConnectFailures, cleanupFail \in CleanupFailures :
          ClientConnect(failAt, cleanupFail)
    \/ \E cleanupFail \in CleanupFailures : ClientDisconnect(cleanupFail)

SpecConnection == InitLife /\ [][NextConnection]_vars

\* the client holds its messaging service, its publisher and its receiver
HoldsAll(c) == c.messaging_service # "none" /\ c.publisher # "none" /\ c.receiver # "none"

\* the client holds none of them
HoldsNone(c) == c.messaging_service = "none" /\ c.publisher = "none" /\ c.receiver = "none"

\* C37: in non-mock mode, after any sequence of connect() and disconnect()
\* calls, is_connected is true exactly when the messaging service, the
\* publisher and the receiver are all held, and when it is false all three are
\* None.
C37_ConnectedIffResourcesHeld ==
    solaceAvailable =>
        /\ client.is_connected <=> HoldsAll(client)
        /\ ~client.is_connected => HoldsNone(client)

-----------------------------------------------------------------------------
(* Further claims about the aggregator *)

\* the aggregate of the same agentResults with agent a's score set to s
WithScore(a, s) == AggregateAgentResults([agentResults EXCEPT ![a] = [@ EXCEPT !.score = s]])

\* RED below YELLOW below GREEN
LevelRank(level) == CASE level = "RED" -> 0 [] level = "YELLOW" -> 1 [] level = "GREEN" -> 2

\* C32: the reality score is monotone in every agent score: raising the score
\* one agent reported, the other three entries staying as they are, neither
\* lowers the reality score nor moves the manipulation level toward RED.
C32_RealityScoreMonotone ==
    aggregate.done =>
        \A a \in SignalAgents :
            (Truthy(agentResults[a]) /\ agentResults[a].hasScore) =>
                \A s \in ScoreVals :
                    s >= agentResults[a].score =>
                        /\ WithScore(a, s).reality_score >= aggregate.reality_score
                        /\ LevelRank(WithScore(a, s).manipulation_level)
                              >= LevelRank(aggregate.manipulation_level)

\* the bot-detector reported 0 and the others 90: 54, YELLOW; with the
\* bot-detector at 100 the score is 94, GREEN
C32_Witness ==
    /\ aggregate.done
    /\ agentResults["bot-detector"] = Scored(0)
    /\ \A a \in SignalAgents \ {"bot-detector"} : agentResults[a] = Scored(9000)
    /\ aggregate.reality_score = 54 * Unit
    /\ aggregate.manipulation_level = "YELLOW"
    /\ WithScore("bot-detector", 10000).reality_score = 94 * Unit
    /\ WithScore("bot-detector", 10000).manipulation_level = "GREEN"

\* a score above 100 raised further: the clamp keeps the reality score at 100
C32_ReachesClamp ==
    /\ aggregate.done
    /\ \A a \in SignalAgents : agentResults[a] = Scored(10000)
    /\ aggregate.reality_score = 100 * Unit
    /\ WithScore("bot-detector", 12000).reality_score = 100 * Unit

\* C33: within one aggregate the headline key finding agrees with the
\* manipulation level: "HEAVILY MANIPULATED" exactly when the level is RED,
\* "MIXED SIGNALS" exactly when it is YELLOW, "MOSTLY AUTHENTIC" exactly when
\* it is GREEN.
C33_HeadlineAgreesWithLevel ==
    aggregate.done =>
        /\ aggregate.key_finding = "HEAVILY MANIPULATED" <=> aggregate.manipulation_level = "RED"
        /\ aggregate.key_finding = "MIXED SIGNALS" <=> aggregate.manipulation_level = "YELLOW"
        /\ aggregate.key_finding = "MOSTLY AUTHENTIC" <=> aggregate.manipulation_level = "GREEN"

\* the agents whose entry is the error response, and those whose entry is a
\* complete response
Failed == {a \in SignalAgents : agentResults[a] = ErrorEntry}
Completed == {a \in SignalAgents : agentResults[a] \in MissingEntries \ {Absent, EmptyDict, Null, ErrorEntry}}

\* C38: in the aggregator's confidence an agent whose response has status
\* ERROR is treated like any other responding agent: its confidence of 0.0
\* enters the average (the sum of the confidences is divided by the number of
\* complete and of failed agents) and it counts toward the bonus of 2 points
\* for each responding agent beyond the first.
C38_ErrorAgentCountsInConfidence ==
    (aggregate.done /\ Failed # {}) =>
        LET n == Cardinality(Completed) + Cardinality(Failed)
            mean == (Cardinality(Completed) * 9000) * ((ConfUnit \div Hundredths) \div n)
            base == mean + ConsistencyBonus(aggregate.agent_scores) + (n - 1) * 2 * ConfUnit
        IN  /\ ErrorEntry.hasConfidence /\ ErrorEntry.confidence = 0
            /\ aggregate.confidence = Max(Min(base, 98 * ConfUnit), 60 * ConfUnit)

\* the bot-detector failed and the other three report 34 with confidence 90:
\* 67.5 + 5.2 + 6 = 78.7, where without the bot-detector it is 90 + 5.2 + 4,
\* capped at 98
C38_Witness ==
    /\ aggregate.done
    /\ agentResults["bot-detector"] = ErrorEntry
    /\ \A a \in SignalAgents \ {"bot-detector"} : agentResults[a] = Complete(3400, 9000)
    /\ aggregate.confidence = 787 * (ConfUnit \div 10)
    /\ WithoutAgent("bot-detector").confidence = 98 * ConfUnit
    /\ aggregate.confidence # WithoutAgent("bot-detector").confidence

\* only failed agents respond: the average is 0 and the floor of 60 applies,
\* where with no agent at all the default of 70 is returned
C38_ReachesAllFailed ==
    /\ aggregate.done
    /\ \A a \in SignalAgents : agentResults[a] = ErrorEntry
    /\ aggregate.confidence = 60 * ConfUnit
    /\ WithoutAgent("bot-detector").confidence = 60 * ConfUnit

-----------------------------------------------------------------------------
(* Further claims about the message handlers, checked under Spec *)

\* C34: when several request messages are handled by one agent on the
\* fallback bus, one thread per message, then once all the handlers have
\* finished processing_count + error_count is the number of messages handled.
C34_CountersAddUp ==
    \A a \in Agents :
        (InFlight(a) = {} /\ Cardinality(Finished(a)) >= 2) =>
            processing_count[a] + error_count[a] = Cardinality(Finished(a))

-----------------------------------------------------------------------------
(* The orchestrator as a state machine: the agents are started, stopped and *)
(* restarted while requests are published to the request topic, on which a  *)
(* generic callable may be subscribed too.                                  *)

NextOrch ==
    \/ StartAllAgents
    \/ \E a \in Instances, failAt \in ConnectFailures : RunAgentStart(a, failAt)
    \/ \E a \in Instances : RunAgentFinally(a)
    \/ StopAllAgents
    \/ \E new \in Restarted : RestartFailedAgents(new)
    \/ \E h \in GenericHandlers : EnvSubscribe(TOPICS.BOT_DETECTOR_REQUEST, h)
    \/ EnvPublish(1, TOPICS.BOT_DETECTOR_REQUEST, "request")
    \/ \E t \in AllThreads : PublishAcquire(t)
    \/ \E t \in AllThreads : PublishDispatch(t)
    \/ \E t \in AllThreads : PublishRelease(t)
    \/ \E t \in HandlerThreads : GenericRun(t, "return")

SpecOrch == InitLife /\ [][NextOrch]_vars

-----------------------------------------------------------------------------
(* Claims about the orchestrator, checked under SpecOrch *)

\* the number of times h is on the list hs
Occurrences(hs, h) == Cardinality({i \in 1 .. Len(hs) : hs[i] = h})

\* C35: after restart_failed_agents() has replaced a non-running agent by a
\* new instance, and that instance's start() has ended, a request published to
\* the agent type's request topic on the fallback bus is delivered to the
\* handler of exactly one agent instance, the new one, and not to the replaced
\* instance.
C35_RestartedInstanceHandles ==
    [][\A t \in AllThreads :
          (/\ PublishAcquire(t)
           /\ threads[t].outTopic = TOPICS.BOT_DETECTOR_REQUEST
           /\ threads[t].out.kind = "request") =>
              \A r \in restartLog :
                  (orch_agents = <<r.new>> /\ lastStart[r.new] # "none") =>
                      /\ Occurrences(HandlersOf(threads[t].outTopic), r.new) = 1
                      /\ Occurrences(HandlersOf(threads[t].outTopic), r.old) = 0]_vars

\* the receiver, the publisher or the messaging service of agent a has been
\* terminated by a stop() call
Terminated(a) ==
    receiver[a] = "closed" \/ publisher[a] = "closed" \/ messaging_service[a] = "closed"

\* this step calls stop() on agent a
StopsAgent(a) ==
    \/ RunAgentFinally(a)
    \/ StopAllAgents /\ orch_agents[1] = a
    \/ \E new \in Restarted : RestartFailedAgents(new) /\ orch_agents[1] = a

\* C36: stop() is idempotent for the transport resources: whatever sequence
\* of stop() calls the orchestrator makes (stop_all_agents, the finally block
\* of _run_agent, restart_failed_agents), no call terminates a receiver or a
\* publisher, or disconnects a messaging service, that an earlier call has
\* terminated.
C36_StopTerminatesOnce ==
    [][\A a \in Instances : StopsAgent(a) => ~Terminated(a)]_vars


-----------------------------------------------------------------------------
(* Claim about the liveness loop, checked under SpecLife *)

====
